---------------------------- MODULE Spec2Model ----------------------------
(***************************************************************************)
(* A model of distill's context intelligence core: the session store       *)
(* (pkg/session) and the memory store (pkg/memory), both on a SQLite        *)
(* handle with a single pooled connection.  Every substrate statement is   *)
(* one step of the calling goroutine; the Go code between two statements   *)
(* is local to the call and is folded into the step of the statement that  *)
(* precedes it.                                                            *)
(*                                                                         *)
(* Texts are sequences of one-character strings (bytes; ASCII only).       *)
(* Importance is in tenths, the dedup threshold in hundredths, and time is *)
(* a counter that every reading of time.Now() advances.                    *)
(***************************************************************************)
EXTENDS Integers, Sequences, FiniteSets, TLC

(***************************************************************************)
(* Bounds of the model.                                                    *)
(***************************************************************************)
\* Entries in one Push / Store request.
MaxBatch == 2
\* Calls started in one behaviour.
MaxCalls == 3
\* The last tick the clock is let pass to on its own.
MaxClock == 27
\* The same while a caller and the worker interleave.
MaxClockConc == 22

(***************************************************************************)
(* Program constants.                                                      *)
(***************************************************************************)
LevelFull == 0
LevelSummary == 1
LevelSentence == 2
LevelKeywords == 3
\* compressToLevel: byte position of the cut when no sentence ends the text.
SentenceCut == 50
\* extractKeywords: cap on the number of keywords (session cascade).
MaxKeywords == 15
\* compress.Options.MinChunkLength passed by compressToLevel.
MinChunkLength == 20
\* compress.Options.TargetReduction passed by compressToLevel, in tenths.
TargetReductionTenths == 2
\* Push: importance given to an entry whose importance is <= 0, in tenths.
DefaultImportance == 5
\* DecayLevel of a memory.
DecayFull == 0
DecaySummary == 1
DecayKeywords == 2
\* extractKeywords of the memory package: cap on the number of keywords.
DecayMaxKeywords == 20
\* Recall: max_results when the request gives none.
DefaultMaxResults == 10

(***************************************************************************)
(* Generic helpers on sequences.                                           *)
(***************************************************************************)
RECURSIVE SumSeq(_)
SumSeq(s) == IF s = <<>> THEN 0 ELSE Head(s) + SumSeq(Tail(s))

Prefix(s, n) == IF n <= 0 THEN <<>> ELSE SubSeq(s, 1, IF n > Len(s) THEN Len(s) ELSE n)

MaxOf(S, dflt) == IF S = {} THEN dflt ELSE CHOOSE x \in S : \A y \in S : y <= x

(***************************************************************************)
(* Text: strings.Fields, strings.Trim, strings.ToLower, strings.TrimSpace, *)
(* strings.Join as the Go standard library computes them on ASCII text.    *)
(***************************************************************************)
IsSpace(c) == c \in {" ", "\t", "\n", "\r"}

UpperToLower ==
    [c \in {"A","B","C","D","E","F","G","H","I","J","K","L","M","N","O","P","Q",
            "R","S","T","U","V","W","X","Y","Z"} |->
       CASE c = "A" -> "a" [] c = "B" -> "b" [] c = "C" -> "c" [] c = "D" -> "d"
         [] c = "E" -> "e" [] c = "F" -> "f" [] c = "G" -> "g" [] c = "H" -> "h"
         [] c = "I" -> "i" [] c = "J" -> "j" [] c = "K" -> "k" [] c = "L" -> "l"
         [] c = "M" -> "m" [] c = "N" -> "n" [] c = "O" -> "o" [] c = "P" -> "p"
         [] c = "Q" -> "q" [] c = "R" -> "r" [] c = "S" -> "s" [] c = "T" -> "t"
         [] c = "U" -> "u" [] c = "V" -> "v" [] c = "W" -> "w" [] c = "X" -> "x"
         [] c = "Y" -> "y" [] c = "Z" -> "z"]

ToLower(w) == [i \in 1..Len(w) |-> IF w[i] \in DOMAIN UpperToLower THEN UpperToLower[w[i]] ELSE w[i]]

\* strings.Fields: the maximal runs of non-space bytes, in order.
RECURSIVE FieldsFrom(_, _, _)
FieldsFrom(t, i, cur) ==
    IF i > Len(t) THEN (IF cur = <<>> THEN <<>> ELSE <<cur>>)
    ELSE IF IsSpace(t[i])
         THEN (IF cur = <<>> THEN <<>> ELSE <<cur>>) \o FieldsFrom(t, i + 1, <<>>)
         ELSE FieldsFrom(t, i + 1, Append(cur, t[i]))

Fields(t) == FieldsFrom(t, 1, <<>>)

\* strings.Trim(w, cutset): drop the leading and trailing bytes in cutset.
RECURSIVE TrimLeft(_, _)
TrimLeft(w, cutset) ==
    IF w # <<>> /\ Head(w) \in cutset THEN TrimLeft(Tail(w), cutset) ELSE w

RECURSIVE TrimRight(_, _)
TrimRight(w, cutset) ==
    IF w # <<>> /\ w[Len(w)] \in cutset THEN TrimRight(SubSeq(w, 1, Len(w) - 1), cutset) ELSE w

Trim(w, cutset) == TrimRight(TrimLeft(w, cutset), cutset)

TrimSpace(t) == Trim(t, {" ", "\t", "\n", "\r"})

\* strings.Join(words, sep)
RECURSIVE Join(_, _)
Join(words, sep) ==
    IF words = <<>> THEN <<>>
    ELSE IF Len(words) = 1 THEN Head(words)
    ELSE Head(words) \o sep \o Join(Tail(words), sep)

(***************************************************************************)
(* Token estimator.                                                        *)
(***************************************************************************)
\* A variant that counts bytes instead of tokens.
estimateTokensBytes(text) == Len(text)

\* (len(text) + 3) / 4
estimateTokens(text) == (Len(text) + 3) \div 4

(***************************************************************************)
(* Keyword extraction of the session cascade.                              *)
(***************************************************************************)
stopWords ==
    {<<"t","h","a","t">>, <<"t","h","i","s">>, <<"w","i","t","h">>, <<"f","r","o","m">>,
     <<"h","a","v","e">>, <<"b","e","e","n">>, <<"w","e","r","e">>, <<"t","h","e","y">>,
     <<"t","h","e","i","r">>, <<"w","h","i","c","h">>, <<"w","o","u","l","d">>,
     <<"t","h","e","r","e">>, <<"a","b","o","u","t">>, <<"c","o","u","l","d">>,
     <<"o","t","h","e","r">>, <<"i","n","t","o">>, <<"m","o","r","e">>, <<"s","o","m","e">>,
     <<"t","h","a","n">>, <<"t","h","e","m">>, <<"v","e","r","y">>, <<"w","h","e","n">>,
     <<"w","h","a","t">>, <<"y","o","u","r">>, <<"a","l","s","o">>, <<"e","a","c","h">>,
     <<"d","o","e","s">>, <<"w","i","l","l">>, <<"j","u","s","t">>,
     <<"s","h","o","u","l","d">>, <<"b","e","c","a","u","s","e">>, <<"t","h","e","s","e">>}

KeywordCutset == {".", ",", ";", ":", "!", "?", "\"", "'", "(", ")", "[", "]", "{", "}"}

\* The loop of extractKeywords over words[i..], with the keywords kept so far.
RECURSIVE KeywordLoop(_, _, _)
KeywordLoop(words, i, keywords) ==
    IF i > Len(words) THEN keywords
    ELSE LET lower == ToLower(Trim(words[i], KeywordCutset))
             seen == {keywords[k] : k \in 1..Len(keywords)}
         IN  IF lower = <<>> \/ Len(lower) < 4 \/ lower \in stopWords \/ lower \in seen
             THEN KeywordLoop(words, i + 1, keywords)
             ELSE KeywordLoop(words, i + 1, Append(keywords, lower))

extractKeywords(text) ==
    LET keywords == KeywordLoop(Fields(text), 1, <<>>)
    IN  Join(Prefix(keywords, MaxKeywords), <<",", " ">>)

(***************************************************************************)
(* The extractive compressor (pkg/compress).  It splits the text into      *)
(* sentences and keeps the leading sentences whose token estimate stays    *)
(* within ceil(TargetReduction * input tokens); a chunk shorter than       *)
(* MinChunkLength is left as it is.                                        *)
(***************************************************************************)
IsTerminator(c) == c \in {".", "!", "?"}

\* The sentences of t: each ends with its terminator; the rest is the last one.
RECURSIVE SentencesFrom(_, _, _)
SentencesFrom(t, i, cur) ==
    IF i > Len(t) THEN (IF TrimSpace(cur) = <<>> THEN <<>> ELSE <<TrimSpace(cur)>>)
    ELSE IF IsTerminator(t[i])
         THEN <<TrimSpace(Append(cur, t[i]))>> \o SentencesFrom(t, i + 1, <<>>)
         ELSE SentencesFrom(t, i + 1, Append(cur, t[i]))

\* The longest prefix of the sentences whose estimates sum to at most budget.
RECURSIVE TakeWithin(_, _)
TakeWithin(sents, budget) ==
    IF sents = <<>> \/ estimateTokens(Head(sents)) > budget THEN <<>>
    ELSE <<Head(sents)>> \o TakeWithin(Tail(sents), budget - estimateTokens(Head(sents)))

ExtractiveCompress(text) ==
    IF Len(text) < MinChunkLength THEN text
    ELSE LET target == (TargetReductionTenths * estimateTokens(text) + 9) \div 10
         IN  Join(TakeWithin(SentencesFrom(text, 1, <<>>), target), <<" ">>)

(***************************************************************************)
(* compressToLevel.                                                        *)
(***************************************************************************)
\* for i, r := range text: the first index holding a sentence terminator, or 0.
FirstTerminator(text) ==
    LET hits == {i \in 1..Len(text) : IsTerminator(text[i])}
    IN  IF hits = {} THEN 0 ELSE CHOOSE i \in hits : \A j \in hits : i <= j

\* for cut > 0 && text[cut] != ' ' { cut-- } (text[cut] is the byte at cut + 1).
RECURSIVE WordCut(_, _)
WordCut(text, cut) ==
    IF cut > 0 /\ text[cut + 1] # " " THEN WordCut(text, cut - 1) ELSE cut

compressToLevel(text, level) ==
    CASE level = LevelSummary ->
            LET result == ExtractiveCompress(text)
            IN  IF result # <<>> THEN result ELSE text
      [] level = LevelSentence ->
            LET i == FirstTerminator(text)
            IN  IF i > 0 THEN SubSeq(text, 1, i)
                ELSE IF Len(text) > SentenceCut
                     THEN LET found == WordCut(text, SentenceCut)
                              cut == IF found = 0 THEN SentenceCut ELSE found
                          IN  TrimSpace(SubSeq(text, 1, cut)) \o <<".", ".", ".">>
                     ELSE text
      [] level = LevelKeywords -> extractKeywords(text)
      [] OTHER -> text

(***************************************************************************)
(* Vector math (pkg/math) and the embedding blobs.  Embeddings are         *)
(* two-dimensional vectors of small whole numbers; cosine distance does    *)
(* not depend on their norm.                                               *)
(***************************************************************************)
NULL == "NULL"

\* math.Float32bits on the values the model's embeddings are made of.
Float32bits(v) ==
    CASE v = 0 -> 0
      [] v = 1 -> 1065353216
      [] v = 2 -> 1073741824
      [] v = 3 -> 1077936128

FloatValues == {0, 1, 2, 3}

Float32frombits(b) == CHOOSE v \in FloatValues : Float32bits(v) = b

\* binary.LittleEndian.PutUint32 / Uint32
PutUint32(b) == <<b % 256, (b \div 256) % 256, (b \div 65536) % 256, (b \div 16777216) % 256>>

Uint32(bs) == bs[1] + 256 * bs[2] + 65536 * bs[3] + 16777216 * bs[4]

RECURSIVE EncodeFrom(_, _)
EncodeFrom(emb, i) ==
    IF i > Len(emb) THEN <<>> ELSE PutUint32(Float32bits(emb[i])) \o EncodeFrom(emb, i + 1)

encodeEmbedding(emb) == IF Len(emb) = 0 THEN NULL ELSE EncodeFrom(emb, 1)

decodeEmbedding(buf) ==
    IF buf = NULL \/ Len(buf) = 0 \/ Len(buf) % 4 # 0 THEN <<>>
    ELSE [i \in 1..(Len(buf) \div 4) |-> Float32frombits(Uint32(SubSeq(buf, 4 * i - 3, 4 * i)))]

Dot(a, b) == SumSeq([i \in 1..Len(a) |-> a[i] * b[i]])

\* CosineDistance(a, b) < th / 100, with CosineDistance = 1 - a.b / (|a| |b|), and
\* 1.0 when either norm is zero; decided in whole numbers.
CosineDistanceBelow(a, b, th) ==
    LET na == Dot(a, a)
        nb == Dot(b, b)
        l  == 100 * Dot(a, b)
        k  == 100 - th
    IN  IF na = 0 \/ nb = 0 THEN 100 < th
        ELSE IF k >= 0 THEN l > 0 /\ l * l > k * k * na * nb
        ELSE l >= 0 \/ l * l < k * k * na * nb

(***************************************************************************)
(* Inputs.                                                                 *)
(***************************************************************************)
TextEmpty == <<>>
TextShort == <<"a","a","a","a"," ","b","b","b","b"," ","c","c","c","c"," ","d","d","d","d">>
TextSent ==
    <<"U","s","e"," ","J","W","T","."," ","T","h","e"," ","t","o","k","e","n"," ",
      "s","e","r","v","i","c","e"," ","s","i","g","n","s"," ","w","i","t","h"," ",
      "R","S","2","5","6"," ","k","e","y","s"," ","t","o","d","a","y",".">>
TextLong ==
    <<"a","l","p","h","a"," ","b","e","t","a"," ","g","a","m","m","a"," ",
      "d","e","l","t","a"," ","e","p","s","i","l","o","n"," ","z","e","t","a"," ",
      "e","t","a"," ","t","h","e","t","a"," ","i","o","t","a"," ","k","a","p","p","a">>

\* The messages of scenario S2, 50 characters each.
S2First ==
    <<"F","i","r","s","t"," ","m","e","s","s","a","g","e"," ","a","b","o","u","t"," ",
      "a","u","t","h","e","n","t","i","c","a","t","i","o","n"," ","a","n","d"," ","J",
      "W","T"," ","t","o","k","e","n","s",".">>
S2Second ==
    <<"S","e","c","o","n","d"," ","m","e","s","s","a","g","e"," ","w","i","t","h"," ",
      "f","i","l","e"," ","c","o","n","t","e","n","t","s"," ","f","r","o","m"," ","a",
      "u","t","h"," ","m","o","d","u","l","e">>
S2Third ==
    <<"T","h","i","r","d"," ","m","e","s","s","a","g","e"," ","a","s","k","i","n","g",
      " ","a","b","o","u","t"," ","t","h","e"," ","b","u","g"," ","f","i","x"," ","i",
      "n"," ","t","h","e"," ","A","P","I",".">>

S2Texts == {S2First, S2Second, S2Third}

\* A text of one word, longer than SentenceCut, with no sentence terminator.
TextWord == [i \in 1..(SentenceCut + 1) |-> "x"]

SessionIds == {"s1", "s2"}

\* The entries a Push request is made of (session.PushEntry).
PushEntries ==
    { [role |-> "user", content |-> TextShort, source |-> "",          embedding |-> <<>>,     importance |-> 0],
      [role |-> "tool", content |-> TextSent,  source |-> "file_read", embedding |-> <<1, 0>>, importance |-> 3],
      [role |-> "tool", content |-> TextLong,  source |-> "search",    embedding |-> <<3, 1>>, importance |-> 10],
      [role |-> "user", content |-> TextShort, source |-> "",          embedding |-> <<1, 1>>, importance |-> 8],
      [role |-> "user", content |-> TextEmpty, source |-> "",          embedding |-> <<0, 1>>, importance |-> 5] }

Batches(S) == UNION { [1..n -> S] : n \in 1..MaxBatch }

\* session.Config handed to NewSQLiteStore.
CfgDefaultMaxTokens == 20
CfgDefaultDedupThreshold == 15
CfgDefaultPreserveRecent == 2

\* The values a CreateRequest takes (0: use the default).
CreateMaxTokens == {0, 10, 16}
CreateDedupThreshold == {0, 30}
CreatePreserveRecent == {0, 1}

(***************************************************************************)
(* State.                                                                  *)
(***************************************************************************)
VARIABLES
    sessions,         \* table sessions: id -> row
    session_entries,  \* table session_entries: its rows in rowid order
    memories,         \* table memories: its rows in rowid order
    memory_tags,      \* table memory_tags: set of <<memory_id, tag>>
    clock,            \* the last reading of time.Now()
    nextId,           \* the ids generateID has handed out
    calls,            \* calls started so far
    proc,             \* per goroutine: the call it runs, its position (pc) and locals
    pushed,           \* history: entry id -> the content its Push supplied
    assigned,         \* history: entry id -> the session (id, created_at) and seq it was given
    worker,           \* the DecayWorker: its cfg, stopCh and the ticker of run()
    closed            \* the stores ("session", "memory") whose Close has returned

vars == <<sessions, session_entries, memories, memory_tags, clock, nextId, calls, proc, pushed, assigned, worker, closed>>

Procs == {1, 2}

\* The goroutine of DecayWorker.run.
Worker == 0

\* The reading of the clock when the stores are opened, in ticks.
StartTime == 20

Idle == [pc |-> "idle", op |-> "none"]

AtRest(p) == proc[p].pc \in {"idle", "done"}

\* Config.SummaryAge, KeywordsAge, EvictAge and DecayInterval of DefaultConfig
\* (24h, 168h, 720h, 1h), scaled to clock ticks with their order kept.
DefaultAges == [SummaryAge |-> 1, KeywordsAge |-> 2, EvictAge |-> 3, DecayInterval |-> 1]

\* NewDecayWorker(store, cfg): stopCh open, run() not started.
NewDecayWorker(cfg) ==
    [cfg |-> cfg, stopCh |-> "open", ticker |-> "none", tick |-> FALSE, nextTick |-> 0]

\* The stores and the clock once NewSQLiteStore has returned.
InitStores ==
    /\ sessions = <<>>
    /\ session_entries = <<>>
    /\ memories = <<>>
    /\ memory_tags = {}
    /\ clock = StartTime
    /\ nextId = 0
    /\ calls = 0
    /\ proc = [p \in Procs \cup {Worker} |-> Idle]
    /\ pushed = <<>>
    /\ assigned = <<>>
    /\ closed = {}

Init == InitStores /\ worker = NewDecayWorker(DefaultAges)

(***************************************************************************)
(* Queries on session_entries.                                             *)
(***************************************************************************)
Front(s) == SubSeq(s, 1, Len(s) - 1)
Last(s) == s[Len(s)]

\* WHERE session_id = sid, in rowid order.
SessionRows(rows, sid) == SelectSeq(rows, LAMBDA r : r.session_id = sid)

\* ORDER BY seq ASC: row i comes behind the rows of lower seq and, as the
\* table is scanned in rowid order, behind the earlier rows of equal seq.
OrderBySeq(rows) ==
    LET n == Len(rows)
        Ahead(j, i) == \/ rows[j].seq < rows[i].seq
                       \/ rows[j].seq = rows[i].seq /\ j < i
        place(i) == 1 + Cardinality({j \in 1..n : Ahead(j, i)})
    IN  [k \in 1..n |-> rows[CHOOSE i \in 1..n : place(i) = k]]

\* SELECT COALESCE(SUM(tokens), 0) FROM session_entries WHERE session_id = sid
SumTokens(rows, sid) ==
    LET own == SessionRows(rows, sid)
    IN  SumSeq([i \in 1..Len(own) |-> own[i].tokens])

\* SELECT COUNT(*) FROM session_entries WHERE session_id = sid
CountEntries(rows, sid) == Len(SessionRows(rows, sid))

\* A variant that numbers from the count of the rows instead of their largest seq.
MaxSeqCount(rows, sid) == CountEntries(rows, sid)

\* SELECT COALESCE(MAX(seq), 0) FROM session_entries WHERE session_id = sid
MaxSeq(rows, sid) ==
    LET own == SessionRows(rows, sid)
    IN  MaxOf({own[i].seq : i \in 1..Len(own)}, 0)

\* DELETE FROM session_entries WHERE id = id
DeleteEntry(rows, id) == SelectSeq(rows, LAMBDA r : r.id # id)

(***************************************************************************)
(* Create.                                                                 *)
(***************************************************************************)
\* The row Create inserts, with the defaults of the store's Config.
NewSession(maxTokens, threshold, preserveRecent, now) ==
    [max_tokens      |-> IF maxTokens <= 0 THEN CfgDefaultMaxTokens ELSE maxTokens,
     dedup_threshold |-> IF threshold <= 0 THEN CfgDefaultDedupThreshold ELSE threshold,
     preserve_recent |-> IF preserveRecent <= 0 THEN CfgDefaultPreserveRecent ELSE preserveRecent,
     created_at      |-> now,
     updated_at      |-> now]

CanStart(p) == AtRest(p) /\ calls < MaxCalls

\* A variant of the INSERT below that replaces the row of the same id.
InsertSessionOrReplace(rows, sid, row) ==
    [s \in DOMAIN rows \cup {sid} |-> IF s = sid THEN row ELSE rows[s]]

\* INSERT INTO sessions: id is the PRIMARY KEY, so the statement fails and
\* writes nothing when a row of that id exists.
InsertSession(rows, sid, row) ==
    IF sid \in DOMAIN rows THEN rows
    ELSE [s \in DOMAIN rows \cup {sid} |-> IF s = sid THEN row ELSE rows[s]]

\* Create: one INSERT; a UNIQUE constraint failure is ErrSessionExists.
CreateWith(p, sids, maxTokens, thresholds, preserveRecents) ==
    /\ CanStart(p)
    /\ \E sid \in sids, mt \in maxTokens, th \in thresholds, pr \in preserveRecents :
          LET now == clock + 1
              exists == sid \in DOMAIN sessions
          IN  /\ clock' = now
              /\ sessions' = InsertSession(sessions, sid, NewSession(mt, th, pr, now))
              /\ proc' = [proc EXCEPT ![p] =
                            [pc |-> "done", op |-> "Create", sid |-> sid,
                             err |-> IF exists THEN "SessionExists" ELSE ""]]
    /\ calls' = calls + 1
    /\ UNCHANGED <<session_entries, memories, memory_tags, nextId, pushed, assigned, worker, closed>>

Create(p) ==
    CreateWith(p, SessionIds, CreateMaxTokens, CreateDedupThreshold, CreatePreserveRecent)

(***************************************************************************)
(* Push: the entry loop.                                                   *)
(***************************************************************************)
\* A variant of isDuplicate that misses the row inserted last.
isDuplicateStale(rows, sid, emb, threshold) ==
    \E i \in 1..(Len(rows) - 1) :
        /\ rows[i].session_id = sid
        /\ rows[i].embedding # NULL
        /\ CosineDistanceBelow(emb, decodeEmbedding(rows[i].embedding), threshold)

\* isDuplicate: the embeddings of the session's rows, decoded, against emb.
isDuplicate(rows, sid, emb, threshold) ==
    \E i \in 1..Len(rows) :
        /\ rows[i].session_id = sid
        /\ rows[i].embedding # NULL
        /\ LET existing == decodeEmbedding(rows[i].embedding)
           IN  Len(existing) # 0 /\ CosineDistanceBelow(emb, existing, threshold)

\* importance := entry.Importance; if importance <= 0 { importance = 0.5 }
NormalImportance(imp) == IF imp <= 0 THEN DefaultImportance ELSE imp

\* tokens > sess.maxTokens: reject the entry, and with it the request.
ExceedsBudget(tokens, maxTokens) == tokens > maxTokens

\* Where the call stands once entry l.i is known to be no duplicate.
PushCheckBudget(l) ==
    IF ExceedsBudget(estimateTokens(l.entries[l.i].content), l.sess.max_tokens)
    THEN [l EXCEPT !.pc = "done", !.err = "OverBudget"]
    ELSE [l EXCEPT !.pc = "push_insert"]

\* The code of the loop from entry l.i up to the next statement it issues.
RECURSIVE PushAdvance(_)
PushAdvance(l) ==
    IF l.i > Len(l.entries) THEN [l EXCEPT !.pc = "enf_sum"]
    ELSE IF l.entries[l.i].content = <<>> THEN PushAdvance([l EXCEPT !.i = l.i + 1])
    ELSE IF Len(l.entries[l.i].embedding) > 0 THEN [l EXCEPT !.pc = "push_dedup"]
    ELSE PushCheckBudget(l)

NewPush(sid, entries, before) ==
    [pc |-> "push_load", op |-> "Push", sid |-> sid, entries |-> entries, i |-> 1,
     sess |-> NULL, maxSeq |-> 0, err |-> "",
     accepted |-> 0, deduplicated |-> 0, compressed |-> 0, evicted |-> 0,
     current_tokens |-> 0, budget_remaining |-> 0,
     currentTokens |-> 0, limit |-> 0, candidates |-> <<>>, ci |-> 0, c |-> 0, e |-> 0,
     evictId |-> NULL, evictTokens |-> 0,
     fallback |-> FALSE, tail |-> {}, inserted |-> <<>>, before |-> before,
     failed |-> FALSE]

\* A caller starts Push.
PushStartWith(p, sids, batches) ==
    /\ CanStart(p)
    /\ \E sid \in sids, entries \in batches :
          proc' = [proc EXCEPT ![p] =
                     NewPush(sid, entries, SessionRows(session_entries, sid))]
    /\ calls' = calls + 1
    /\ UNCHANGED <<sessions, session_entries, memories, memory_tags, clock, nextId, pushed, assigned, worker, closed>>

PushStart(p) == PushStartWith(p, SessionIds, Batches(PushEntries))

\* A variant of the SELECT below that yields a row of defaults for a missing id.
SelectConfigOrDefault(rows, sid) ==
    IF sid \in DOMAIN rows THEN <<rows[sid]>> ELSE <<NewSession(0, 0, 0, 0)>>

\* SELECT max_tokens, dedup_threshold, preserve_recent FROM sessions WHERE id:
\* the rows it returns (none is sql.ErrNoRows).
SelectConfig(rows, sid) == IF sid \in DOMAIN rows THEN <<rows[sid]>> ELSE <<>>

\* loadSessionConfig: no row is ErrSessionNotFound.
loadSessionConfig(p) ==
    /\ proc[p].pc = "push_load"
    /\ LET l == proc[p]
           cfg == SelectConfig(sessions, l.sid)
       IN  proc' = [proc EXCEPT ![p] =
                      IF Len(cfg) > 0
                      THEN [l EXCEPT !.pc = "push_maxseq", !.sess = cfg[1]]
                      ELSE [l EXCEPT !.pc = "done", !.err = "SessionNotFound"]]
    /\ UNCHANGED <<sessions, session_entries, memories, memory_tags, clock, nextId, calls, pushed, assigned, worker, closed>>

\* SELECT COALESCE(MAX(seq), 0), then the loop up to its first statement.
PushMaxSeq(p) ==
    /\ proc[p].pc = "push_maxseq"
    /\ LET l == proc[p]
       IN  proc' = [proc EXCEPT ![p] =
                      PushAdvance([l EXCEPT !.maxSeq = MaxSeq(session_entries, l.sid)])]
    /\ UNCHANGED <<sessions, session_entries, memories, memory_tags, clock, nextId, calls, pushed, assigned, worker, closed>>

\* The dedup check of entry i: one SELECT of the session's embeddings.
PushDedup(p) ==
    /\ proc[p].pc = "push_dedup"
    /\ LET l == proc[p]
           dup == isDuplicate(session_entries, l.sid, l.entries[l.i].embedding,
                              l.sess.dedup_threshold)
       IN  proc' = [proc EXCEPT ![p] =
                      IF dup
                      THEN PushAdvance([l EXCEPT !.deduplicated = l.deduplicated + 1,
                                                 !.i = l.i + 1])
                      ELSE PushCheckBudget(l)]
    /\ UNCHANGED <<sessions, session_entries, memories, memory_tags, clock, nextId, calls, pushed, assigned, worker, closed>>

\* The row Push inserts for entry e.
NewEntry(id, sid, e, seq, now) ==
    [id |-> id, session_id |-> sid, role |-> e.role, content |-> e.content,
     original_content |-> e.content, source |-> e.source,
     embedding |-> encodeEmbedding(e.embedding), importance |-> NormalImportance(e.importance),
     compression_level |-> LevelFull, tokens |-> estimateTokens(e.content), seq |-> seq,
     created_at |-> now, compressed_at |-> 0]

\* seq of the next entry: maxSeq++.
NextSeq(maxSeq) == maxSeq + 1

\* INSERT INTO session_entries; the foreign key fails it when the session is gone.
PushInsert(p) ==
    /\ proc[p].pc = "push_insert"
    /\ LET l   == proc[p]
           id  == nextId + 1
           now == clock + 1
           seq == NextSeq(l.maxSeq)
       IN  /\ nextId' = id
           /\ clock' = now
           /\ IF l.sid \in DOMAIN sessions
              THEN /\ session_entries' =
                          Append(session_entries, NewEntry(id, l.sid, l.entries[l.i], seq, now))
                   /\ pushed' = [x \in DOMAIN pushed \cup {id} |->
                                    IF x = id THEN l.entries[l.i].content ELSE pushed[x]]
                   /\ assigned' = [x \in DOMAIN assigned \cup {id} |->
                                      IF x = id
                                      THEN [sid |-> l.sid, created_at |-> sessions[l.sid].created_at,
                                            seq |-> seq]
                                      ELSE assigned[x]]
                   /\ proc' = [proc EXCEPT ![p] =
                                 PushAdvance([l EXCEPT !.maxSeq = seq,
                                                       !.accepted = l.accepted + 1,
                                                       !.inserted = Append(l.inserted, id),
                                                       !.i = l.i + 1])]
              ELSE /\ proc' = [proc EXCEPT ![p] =
                                 [l EXCEPT !.pc = "done", !.err = "insert entry", !.maxSeq = seq]]
                   /\ UNCHANGED <<session_entries, pushed, assigned>>
    /\ UNCHANGED <<sessions, memories, memory_tags, calls, worker, closed>>

(***************************************************************************)
(* Push: budget enforcement.                                               *)
(***************************************************************************)
\* sort.Slice with less = importance ascending.  Up to MaxInsertion elements
\* sort.Slice is an insertion sort: it moves an element to the left past the
\* elements of greater importance only, so that element i ends up behind the
\* elements of lower importance and the earlier elements of equal importance.
insertionSort(cs) ==
    LET n == Len(cs)
        Ahead(j, i) == \/ cs[j].importance < cs[i].importance
                       \/ cs[j].importance = cs[i].importance /\ j < i
        place(i) == 1 + Cardinality({j \in 1..n : Ahead(j, i)})
    IN  [k \in 1..n |-> cs[CHOOSE i \in 1..n : place(i) = k]]

\* The longest slice sort.Slice hands to its insertion sort.
MaxInsertion == 12

\* Every order of the elements of S.
RECURSIVE Arrangements(_)
Arrangements(S) ==
    IF S = {} THEN {<<>>}
    ELSE UNION {{<<x>> \o rest : rest \in Arrangements(S \ {x})} : x \in S}

\* Every order of the candidates in S that is ascending in importance.
RECURSIVE AscendingOrders(_)
AscendingOrders(S) ==
    IF S = {} THEN {<<>>}
    ELSE LET least == {c \in S : \A d \in S : ~(d.importance < c.importance)}
         IN  {first \o rest : first \in Arrangements(least),
                              rest \in AscendingOrders(S \ least)}

\* A variant of sortCandidates that is stable at every length.
sortCandidatesStable(cs) == {insertionSort(cs)}

\* sortCandidates: the orders sort.Slice may leave the candidates in.  It is
\* not a stable sort: past MaxInsertion elements it partitions the slice
\* around pivots, and candidates of equal importance come out in any order.
sortCandidates(cs) ==
    IF Len(cs) <= MaxInsertion THEN {insertionSort(cs)}
    ELSE AscendingOrders({cs[i] : i \in 1..Len(cs)})

\* A variant of the limit that counts one row too many.
CandidateLimitAll(totalEntries, preserveRecent) == totalEntries - preserveRecent + 1

\* A variant of the limit below that spares one entry fewer than preserve_recent.
CandidateLimitOneMore(totalEntries, preserveRecent) == totalEntries - preserveRecent + 1

\* limit := totalEntries - cfg.preserveRecent
CandidateLimit(totalEntries, preserveRecent) == totalEntries - preserveRecent

\* SELECT id, original_content, compression_level, importance, tokens
\* FROM session_entries WHERE session_id = sid ORDER BY seq ASC LIMIT limit
SelectCandidates(rows, sid, limit) ==
    LET own == Prefix(OrderBySeq(SessionRows(rows, sid)), limit)
    IN  [i \in 1..Len(own) |->
           [id |-> own[i].id, originalContent |-> own[i].original_content,
            level |-> own[i].compression_level, importance |-> own[i].importance,
            tokens |-> own[i].tokens]]

\* The ids of the last preserveRecent rows of the session in seq order.
TailIds(rows, sid, preserveRecent) ==
    LET own == OrderBySeq(SessionRows(rows, sid))
    IN  {own[i].id : i \in {j \in 1..Len(own) : j > Len(own) - preserveRecent}}

\* A variant of Push's loop around enforceBudget that breaks after the first
\* pass, whatever the pass did.
AfterPassOnce(l) ==
    [l EXCEPT !.pc = "push_touch", !.compressed = l.compressed + l.c,
              !.evicted = l.evicted + l.e]

\* A variant of Push's loop that has no break: every pass is followed by another.
AfterPassAgain(l) ==
    [l EXCEPT !.pc = "enf_sum", !.compressed = l.compressed + l.c,
              !.evicted = l.evicted + l.e, !.c = 0, !.e = 0,
              !.candidates = <<>>, !.ci = 0]

\* Push's loop around enforceBudget, when a pass has returned (c, e):
\* break when c == 0 && e == 0, another pass otherwise.
AfterPass(l) ==
    IF l.c = 0 /\ l.e = 0 THEN [l EXCEPT !.pc = "push_touch"]
    ELSE [l EXCEPT !.pc = "enf_sum", !.compressed = l.compressed + l.c,
                   !.evicted = l.evicted + l.e, !.c = 0, !.e = 0,
                   !.candidates = <<>>, !.ci = 0]

\* enforceBudget's loop over the candidates, before candidate l.ci.
EnforceNext(l) ==
    IF l.ci > Len(l.candidates) \/ l.currentTokens <= l.sess.max_tokens
    THEN AfterPass(l)
    ELSE [l EXCEPT !.pc = "enf_apply"]

\* enforceBudget: SELECT COALESCE(SUM(tokens), 0); within budget returns (0, 0).
EnforceSum(p) ==
    /\ proc[p].pc = "enf_sum"
    /\ LET l == proc[p]
           current == SumTokens(session_entries, l.sid)
           l1 == [l EXCEPT !.currentTokens = current, !.c = 0, !.e = 0,
                           !.tail = IF l.compressed + l.evicted = 0
                                    THEN TailIds(session_entries, l.sid, l.sess.preserve_recent)
                                    ELSE l.tail]
       IN  proc' = [proc EXCEPT ![p] =
                      IF current <= l.sess.max_tokens THEN AfterPass(l1)
                      ELSE [l1 EXCEPT !.pc = "enf_count"]]
    /\ UNCHANGED <<sessions, session_entries, memories, memory_tags, clock, nextId, calls, pushed, assigned, worker, closed>>

\* enforceBudget: SELECT COUNT(*); no candidate leaves evictOldest.
EnforceCount(p) ==
    /\ proc[p].pc = "enf_count"
    /\ LET l == proc[p]
           limit == CandidateLimit(CountEntries(session_entries, l.sid), l.sess.preserve_recent)
       IN  proc' = [proc EXCEPT ![p] =
                      IF limit <= 0
                      THEN [l EXCEPT !.pc = "fb_select", !.fallback = TRUE]
                      ELSE [l EXCEPT !.pc = "enf_select", !.limit = limit]]
    /\ UNCHANGED <<sessions, session_entries, memories, memory_tags, clock, nextId, calls, pushed, assigned, worker, closed>>

\* enforceBudget: the SELECT of the candidates, then sortCandidates.
EnforceSelect(p) ==
    /\ proc[p].pc = "enf_select"
    /\ LET l == proc[p]
       IN  \E cs \in sortCandidates(SelectCandidates(session_entries, l.sid, l.limit)) :
              proc' = [proc EXCEPT ![p] = EnforceNext([l EXCEPT !.candidates = cs, !.ci = 1])]
    /\ UNCHANGED <<sessions, session_entries, memories, memory_tags, clock, nextId, calls, pushed, assigned, worker, closed>>

\* UPDATE session_entries SET content, compression_level, tokens, compressed_at WHERE id
CompressEntry(rows, id, newContent, nextLevel, newTokens, now) ==
    [i \in 1..Len(rows) |->
       IF rows[i].id = id
       THEN [rows[i] EXCEPT !.content = newContent, !.compression_level = nextLevel,
                            !.tokens = newTokens, !.compressed_at = now]
       ELSE rows[i]]

\* A variant of nextLevel that skips a level.
NextLevelSkip(level) == level + 2

\* nextLevel := c.level + 1
NextLevel(level) == level + 1

\* A variant that compresses the form the entry holds instead of the original.
RecompressStored(cand, nextLevel) ==
    compressToLevel(compressToLevel(cand.originalContent, cand.level), nextLevel)

\* compressToLevel on the contents a Push can supply, worked out once.
recompressed ==
    LET originals == {e.content : e \in PushEntries} \cup S2Texts \cup {TextWord}
    IN  [t \in originals |->
           [level \in LevelSummary..LevelKeywords |-> compressToLevel(t, level)]]

\* The text enforceBudget writes for a candidate: compressToLevel of the original.
Recompress(cand, nextLevel) == recompressed[cand.originalContent][nextLevel]

\* A variant of the test below that evicts an entry held as its first sentence.
PastSentence(nextLevel) == nextLevel > LevelSentence

\* if nextLevel > int(LevelKeywords): the candidate is evicted.
PastKeywords(nextLevel) == nextLevel > LevelKeywords

\* enforceBudget: one candidate, evicted at keywords and compressed one level otherwise.
EnforceApply(p) ==
    /\ proc[p].pc = "enf_apply"
    /\ LET l == proc[p]
           cand == l.candidates[l.ci]
           nextLevel == NextLevel(cand.level)
       IN  IF PastKeywords(nextLevel)
           THEN /\ session_entries' = DeleteEntry(session_entries, cand.id)
                /\ proc' = [proc EXCEPT ![p] =
                              EnforceNext([l EXCEPT !.currentTokens = l.currentTokens - cand.tokens,
                                                    !.e = l.e + 1, !.ci = l.ci + 1])]
                /\ UNCHANGED clock
           ELSE LET newContent == Recompress(cand, nextLevel)
                    newTokens == estimateTokens(newContent)
                    now == clock + 1
                IN  /\ clock' = now
                    /\ session_entries' = CompressEntry(session_entries, cand.id, newContent,
                                                        nextLevel, newTokens, now)
                    /\ proc' = [proc EXCEPT ![p] =
                                  EnforceNext([l EXCEPT
                                      !.currentTokens = l.currentTokens - (cand.tokens - newTokens),
                                      !.c = l.c + 1, !.ci = l.ci + 1])]
    /\ UNCHANGED <<sessions, memories, memory_tags, nextId, calls, pushed, assigned, worker, closed>>

\* evictOldest: SELECT id, tokens ... ORDER BY seq ASC LIMIT 1; no row ends the loop.
EvictSelect(p) ==
    /\ proc[p].pc = "fb_select"
    /\ LET l == proc[p]
           own == OrderBySeq(SessionRows(session_entries, l.sid))
       IN  proc' = [proc EXCEPT ![p] =
                      IF own = <<>> THEN AfterPass(l)
                      ELSE [l EXCEPT !.pc = "fb_delete", !.evictId = own[1].id,
                                     !.evictTokens = own[1].tokens]]
    /\ UNCHANGED <<sessions, session_entries, memories, memory_tags, clock, nextId, calls, pushed, assigned, worker, closed>>

\* A variant of the loop's test that goes on while a row is left.
EvictMoreAlways(currentTokens, maxTokens) == TRUE

\* evictOldest: for currentTokens > cfg.maxTokens
EvictMore(currentTokens, maxTokens) == currentTokens > maxTokens

\* evictOldest: DELETE the row selected, then the loop's test.
EvictDelete(p) ==
    /\ proc[p].pc = "fb_delete"
    /\ LET l == proc[p]
           l1 == [l EXCEPT !.currentTokens = l.currentTokens - l.evictTokens,
                           !.e = l.e + 1, !.evictId = NULL, !.evictTokens = 0]
       IN  /\ session_entries' = DeleteEntry(session_entries, l.evictId)
           /\ proc' = [proc EXCEPT ![p] =
                         IF EvictMore(l1.currentTokens, l.sess.max_tokens)
                         THEN [l1 EXCEPT !.pc = "fb_select"]
                         ELSE AfterPass(l1)]
    /\ UNCHANGED <<sessions, memories, memory_tags, clock, nextId, calls, pushed, assigned, worker, closed>>

\* UPDATE sessions SET updated_at = now WHERE id = sid
PushTouch(p) ==
    /\ proc[p].pc = "push_touch"
    /\ LET l == proc[p]
           now == clock + 1
       IN  /\ clock' = now
           /\ sessions' = [s \in DOMAIN sessions |->
                             IF s = l.sid THEN [sessions[s] EXCEPT !.updated_at = now]
                             ELSE sessions[s]]
           /\ proc' = [proc EXCEPT ![p] = [l EXCEPT !.pc = "push_final"]]
    /\ UNCHANGED <<session_entries, memories, memory_tags, nextId, calls, pushed, assigned, worker, closed>>

\* SELECT COALESCE(SUM(tokens), 0), and Push returns its result.
PushFinal(p) ==
    /\ proc[p].pc = "push_final"
    /\ LET l == proc[p]
           current == SumTokens(session_entries, l.sid)
       IN  proc' = [proc EXCEPT ![p] =
                      [l EXCEPT !.pc = "done", !.current_tokens = current,
                                !.budget_remaining = l.sess.max_tokens - current]]
    /\ UNCHANGED <<sessions, session_entries, memories, memory_tags, clock, nextId, calls, pushed, assigned, worker, closed>>

\* The statement Push is about to issue fails (the context is cancelled, or
\* the database reports an error) and writes nothing.  What Push does with
\* the error depends on the statement: the reads of MAX(seq), SUM(tokens)
\* and COUNT(*) and the final UPDATE and SUM discard it and go on with the
\* zero value; evictOldest breaks on a failed SELECT and counts a failed
\* DELETE as an eviction; the others return it.  One statement of a call
\* fails (with DELETEs that keep failing the loop around enforceBudget does
\* not end).
PushFail(p) ==
    /\ proc[p].op = "Push"
    /\ proc[p].pc \notin {"done", "idle"}
    /\ ~proc[p].failed
    /\ LET l == [proc[p] EXCEPT !.failed = TRUE]
           returns(msg) == [l EXCEPT !.pc = "done", !.err = msg]
       IN  /\ proc' = [proc EXCEPT ![p] =
                 CASE l.pc = "push_load"   -> returns("load session")
                   [] l.pc = "push_maxseq" -> PushAdvance([l EXCEPT !.maxSeq = 0])
                   [] l.pc = "push_dedup"  -> returns("dedup check")
                   [] l.pc = "push_insert" ->
                          [returns("insert entry") EXCEPT !.maxSeq = NextSeq(l.maxSeq)]
                   [] l.pc = "enf_sum"     ->
                          AfterPass([l EXCEPT !.currentTokens = 0, !.c = 0, !.e = 0])
                   [] l.pc = "enf_count"   ->
                          IF CandidateLimit(0, l.sess.preserve_recent) <= 0
                          THEN [l EXCEPT !.pc = "fb_select", !.fallback = TRUE]
                          ELSE [l EXCEPT !.pc = "enf_select",
                                         !.limit = CandidateLimit(0, l.sess.preserve_recent)]
                   [] l.pc = "enf_select"  -> returns("enforce budget")
                   [] l.pc = "enf_apply"   -> returns("enforce budget")
                   [] l.pc = "fb_select"   -> AfterPass(l)
                   [] l.pc = "fb_delete"   ->
                          LET l1 == [l EXCEPT !.currentTokens = l.currentTokens - l.evictTokens,
                                              !.e = l.e + 1, !.evictId = NULL,
                                              !.evictTokens = 0]
                          IN  IF EvictMore(l1.currentTokens, l.sess.max_tokens)
                              THEN [l1 EXCEPT !.pc = "fb_select"]
                              ELSE AfterPass(l1)
                   [] l.pc = "push_touch"  -> [l EXCEPT !.pc = "push_final"]
                   [] l.pc = "push_final"  ->
                          [l EXCEPT !.pc = "done", !.current_tokens = 0,
                                    !.budget_remaining = l.sess.max_tokens]]
           /\ clock' = IF \/ l.pc \in {"push_insert", "push_touch"}
                          \/ /\ l.pc = "enf_apply"
                             /\ NextLevel(l.candidates[l.ci].level) <= LevelKeywords
                       THEN clock + 1 ELSE clock
           /\ nextId' = IF l.pc = "push_insert" THEN nextId + 1 ELSE nextId
    /\ UNCHANGED <<sessions, session_entries, memories, memory_tags, calls, pushed, assigned, worker, closed>>

(***************************************************************************)
(* Context, Get, Delete.                                                   *)
(***************************************************************************)
\* The values a ContextRequest takes (0: no limit; "": every role).
ContextMaxTokens == {0, 6}
ContextRoles == {"", "tool"}

\* A Push on session sid that has written and whose next statement writes again.
MidPush(q, sid) ==
    /\ proc[q].op = "Push"
    /\ proc[q].sid = sid
    /\ proc[q].pc \in {"push_insert", "enf_apply", "fb_delete"}
    /\ Len(proc[q].inserted) + proc[q].compressed + proc[q].evicted + proc[q].c + proc[q].e > 0

ContextStartWith(p, sids, maxTokens, roles) ==
    /\ CanStart(p)
    /\ \E sid \in sids, mt \in maxTokens, role \in roles :
          proc' = [proc EXCEPT ![p] =
                     [pc |-> "ctx_exists", op |-> "Context", sid |-> sid, max_tokens |-> mt,
                      role |-> role, err |-> "", entries |-> <<>>, total_tokens |-> 0,
                      compression_savings |-> 0, midPush |-> FALSE]]
    /\ calls' = calls + 1
    /\ UNCHANGED <<sessions, session_entries, memories, memory_tags, clock, nextId, pushed, assigned, worker, closed>>

ContextStart(p) == ContextStartWith(p, SessionIds, ContextMaxTokens, ContextRoles)

\* SELECT COUNT(*) FROM sessions WHERE id = sid
ContextExists(p) ==
    /\ proc[p].pc = "ctx_exists"
    /\ LET l == proc[p]
       IN  proc' = [proc EXCEPT ![p] =
                      IF l.sid \in DOMAIN sessions THEN [l EXCEPT !.pc = "ctx_entries"]
                      ELSE [l EXCEPT !.pc = "done", !.err = "SessionNotFound"]]
    /\ UNCHANGED <<sessions, session_entries, memories, memory_tags, clock, nextId, calls, pushed, assigned, worker, closed>>

\* A variant of the walk below that passes over a row that would exceed
\* maxTokens and goes on with the rows behind it.
RECURSIVE ContextWalkSkipping(_, _, _)
ContextWalkSkipping(raw, maxTokens, tokenCount) ==
    IF raw = <<>> THEN <<>>
    ELSE IF maxTokens > 0 /\ tokenCount + Head(raw).tokens > maxTokens
    THEN ContextWalkSkipping(Tail(raw), maxTokens, tokenCount)
    ELSE <<Head(raw)>> \o ContextWalkSkipping(Tail(raw), maxTokens, tokenCount + Head(raw).tokens)

\* The walk over the rows read: stop before the row that would exceed maxTokens.
RECURSIVE ContextWalk(_, _, _)
ContextWalk(raw, maxTokens, tokenCount) ==
    IF raw = <<>> \/ (maxTokens > 0 /\ tokenCount + Head(raw).tokens > maxTokens) THEN <<>>
    ELSE <<Head(raw)>> \o ContextWalk(Tail(raw), maxTokens, tokenCount + Head(raw).tokens)

\* SELECT id, role, content, source, compression_level, tokens, created_at ... ORDER BY seq ASC
\* (of a ContextEntry the model keeps id, role, level and tokens).
ContextEntries(p) ==
    /\ proc[p].pc = "ctx_entries"
    /\ LET l == proc[p]
           own == OrderBySeq(SessionRows(session_entries, l.sid))
           sel == SelectSeq(own, LAMBDA r : l.role = "" \/ r.role = l.role)
           raw == [i \in 1..Len(sel) |->
                     [id |-> sel[i].id, role |-> sel[i].role,
                      level |-> sel[i].compression_level, tokens |-> sel[i].tokens]]
           entries == ContextWalk(raw, l.max_tokens, 0)
       IN  proc' = [proc EXCEPT ![p] =
                      [l EXCEPT !.pc = "ctx_savings", !.entries = entries,
                                !.total_tokens = SumSeq([i \in 1..Len(entries) |-> entries[i].tokens]),
                                !.midPush = \E q \in Procs \ {p} : MidPush(q, l.sid)]]
    /\ UNCHANGED <<sessions, session_entries, memories, memory_tags, clock, nextId, calls, pushed, assigned, worker, closed>>

\* SELECT COALESCE(SUM(LENGTH(original_content)+3)/4, 0)
TotalOriginalTokens(rows, sid) ==
    LET own == SessionRows(rows, sid)
    IN  SumSeq([i \in 1..Len(own) |-> Len(own[i].original_content) + 3]) \div 4

ContextSavings(p) ==
    /\ proc[p].pc = "ctx_savings"
    /\ LET l == proc[p]
       IN  proc' = [proc EXCEPT ![p] =
                      [l EXCEPT !.pc = "done",
                                !.compression_savings =
                                    TotalOriginalTokens(session_entries, l.sid) - l.total_tokens]]
    /\ UNCHANGED <<sessions, session_entries, memories, memory_tags, clock, nextId, calls, pushed, assigned, worker, closed>>

GetStartWith(p, sids) ==
    /\ CanStart(p)
    /\ \E sid \in sids :
          proc' = [proc EXCEPT ![p] =
                     [pc |-> "get_session", op |-> "Get", sid |-> sid, err |-> "",
                      max_tokens |-> 0, current_tokens |-> 0, entry_count |-> 0,
                      midPush |-> FALSE]]
    /\ calls' = calls + 1
    /\ UNCHANGED <<sessions, session_entries, memories, memory_tags, clock, nextId, pushed, assigned, worker, closed>>

GetStart(p) == GetStartWith(p, SessionIds)

\* SELECT id, max_tokens, created_at, updated_at FROM sessions WHERE id = sid
GetSession(p) ==
    /\ proc[p].pc = "get_session"
    /\ LET l == proc[p]
       IN  proc' = [proc EXCEPT ![p] =
                      IF l.sid \in DOMAIN sessions
                      THEN [l EXCEPT !.pc = "get_sum", !.max_tokens = sessions[l.sid].max_tokens]
                      ELSE [l EXCEPT !.pc = "done", !.err = "SessionNotFound"]]
    /\ UNCHANGED <<sessions, session_entries, memories, memory_tags, clock, nextId, calls, pushed, assigned, worker, closed>>

\* SELECT COALESCE(SUM(tokens), 0), COUNT(*) FROM session_entries WHERE session_id = sid
GetSum(p) ==
    /\ proc[p].pc = "get_sum"
    /\ LET l == proc[p]
       IN  proc' = [proc EXCEPT ![p] =
                      [l EXCEPT !.pc = "done",
                                !.current_tokens = SumTokens(session_entries, l.sid),
                                !.entry_count = CountEntries(session_entries, l.sid),
                                !.midPush = \E q \in Procs \ {p} : MidPush(q, l.sid)]]
    /\ UNCHANGED <<sessions, session_entries, memories, memory_tags, clock, nextId, calls, pushed, assigned, worker, closed>>

DeleteStartWith(p, sids) ==
    /\ CanStart(p)
    /\ \E sid \in sids :
          proc' = [proc EXCEPT ![p] =
                     [pc |-> "del_count", op |-> "Delete", sid |-> sid, err |-> "",
                      count |-> 0, entries_removed |-> 0]]
    /\ calls' = calls + 1
    /\ UNCHANGED <<sessions, session_entries, memories, memory_tags, clock, nextId, pushed, assigned, worker, closed>>

DeleteStart(p) == DeleteStartWith(p, SessionIds)

\* SELECT COUNT(*) FROM session_entries WHERE session_id = sid
DeleteCount(p) ==
    /\ proc[p].pc = "del_count"
    /\ LET l == proc[p]
       IN  proc' = [proc EXCEPT ![p] =
                      [l EXCEPT !.pc = "del_exec", !.count = CountEntries(session_entries, l.sid)]]
    /\ UNCHANGED <<sessions, session_entries, memories, memory_tags, clock, nextId, calls, pushed, assigned, worker, closed>>

\* A variant of the foreign key below without ON DELETE CASCADE handling.
CascadeNothing(rows, sid) == rows

\* FOREIGN KEY (session_id) REFERENCES sessions(id) ON DELETE CASCADE: the
\* rows left when session sid is deleted.
CascadeEntries(rows, sid) == SelectSeq(rows, LAMBDA r : r.session_id # sid)

\* DELETE FROM sessions WHERE id = sid; the foreign key cascades to the entries.
DeleteExec(p) ==
    /\ proc[p].pc = "del_exec"
    /\ LET l == proc[p]
       IN  IF l.sid \in DOMAIN sessions
           THEN /\ sessions' = [s \in DOMAIN sessions \ {l.sid} |-> sessions[s]]
                /\ session_entries' = CascadeEntries(session_entries, l.sid)
                /\ proc' = [proc EXCEPT ![p] =
                              [l EXCEPT !.pc = "done", !.entries_removed = l.count]]
           ELSE /\ proc' = [proc EXCEPT ![p] =
                              [l EXCEPT !.pc = "done", !.err = "SessionNotFound"]]
                /\ UNCHANGED <<sessions, session_entries>>
    /\ UNCHANGED <<memories, memory_tags, clock, nextId, calls, pushed, assigned, worker, closed>>

(***************************************************************************)
(* The session store: calls that do not overlap (Spec), and calls of two   *)
(* goroutines that interleave statement by statement (SpecConc).           *)
(***************************************************************************)
SessionStep(p) ==
    \/ Create(p)
    \/ PushStart(p)
    \/ loadSessionConfig(p)
    \/ PushMaxSeq(p)
    \/ PushDedup(p)
    \/ PushInsert(p)
    \/ EnforceSum(p)
    \/ EnforceCount(p)
    \/ EnforceSelect(p)
    \/ EnforceApply(p)
    \/ EvictSelect(p)
    \/ EvictDelete(p)
    \/ PushTouch(p)
    \/ PushFinal(p)
    \/ ContextStart(p)
    \/ ContextExists(p)
    \/ ContextEntries(p)
    \/ ContextSavings(p)
    \/ GetStart(p)
    \/ GetSession(p)
    \/ GetSum(p)
    \/ DeleteStart(p)
    \/ DeleteCount(p)
    \/ DeleteExec(p)

Next == SessionStep(1)

Spec == Init /\ [][Next]_vars

\* The statements of a Push that is under way.
PushProgress(p) ==
    \/ loadSessionConfig(p)
    \/ PushMaxSeq(p)
    \/ PushDedup(p)
    \/ PushInsert(p)
    \/ EnforceSum(p)
    \/ EnforceCount(p)
    \/ EnforceSelect(p)
    \/ EnforceApply(p)
    \/ EvictSelect(p)
    \/ EvictDelete(p)
    \/ PushTouch(p)
    \/ PushFinal(p)

\* Create and Push on one session.  The goroutine of a call is scheduled and
\* the database answers every statement: a Push that can take a step takes
\* one.  Nothing makes a caller start a call.
LiveNext ==
    \/ CreateWith(1, {"s1"}, CreateMaxTokens, {0}, CreatePreserveRecent)
    \/ PushStart(1)
    \/ PushProgress(1)

LiveSpec == Init /\ [][LiveNext]_vars /\ WF_vars(PushProgress(1))

\* The store opened on a database file that holds session s2 with one entry,
\* pushed before the file was closed.
OpenedInit ==
    LET e == CHOOSE x \in PushEntries : x.content = TextShort /\ x.embedding = <<>>
    IN  /\ sessions = ("s2" :> [NewSession(16, 0, 2, StartTime - 3)
                                  EXCEPT !.updated_at = StartTime - 1])
        /\ session_entries = <<NewEntry(1, "s2", e, 1, StartTime - 2)>>
        /\ memories = <<>>
        /\ memory_tags = {}
        /\ clock = StartTime
        /\ nextId = 1
        /\ calls = 0
        /\ proc = [p \in Procs \cup {Worker} |-> Idle]
        /\ pushed = <<e.content>>
        /\ assigned = <<[sid |-> "s2", created_at |-> StartTime - 3, seq |-> 1]>>
        /\ worker = NewDecayWorker(DefaultAges)
        /\ closed = {}

\* The requests of the interleaved calls: one session, two batches.
ConcSessionIds == {"s1"}
ConcBatches ==
    LET e == [c \in {"short", "sent"} |->
                CHOOSE x \in PushEntries :
                   CASE c = "short" -> x.content = TextShort /\ x.embedding = <<>>
                     [] c = "sent"  -> x.content = TextSent]
    IN  {<<e["short"]>>, <<e["sent"], e["short"]>>}

ConcCreate(p) == p = 1 /\ CreateWith(p, ConcSessionIds, {16}, {0}, {2})
ConcPushStart(p) == PushStartWith(p, ConcSessionIds, ConcBatches)
ConcContextStart(p) == ContextStartWith(p, ConcSessionIds, {0}, {""})
ConcGetStart(p) == GetStartWith(p, ConcSessionIds)
ConcDeleteStart(p) == DeleteStartWith(p, ConcSessionIds)

ConcStep(p) ==
    \/ ConcCreate(p)
    \/ ConcPushStart(p)
    \/ loadSessionConfig(p)
    \/ PushMaxSeq(p)
    \/ PushDedup(p)
    \/ PushInsert(p)
    \/ EnforceSum(p)
    \/ EnforceCount(p)
    \/ EnforceSelect(p)
    \/ EnforceApply(p)
    \/ EvictSelect(p)
    \/ EvictDelete(p)
    \/ PushTouch(p)
    \/ PushFinal(p)
    \/ ConcContextStart(p)
    \/ ContextExists(p)
    \/ ContextEntries(p)
    \/ ContextSavings(p)
    \/ ConcGetStart(p)
    \/ GetSession(p)
    \/ GetSum(p)
    \/ ConcDeleteStart(p)
    \/ DeleteCount(p)
    \/ DeleteExec(p)

NextConc == \E p \in Procs : ConcStep(p)

SpecConc == Init /\ [][NextConc]_vars

\* The session store used by one caller, with statements of Push that fail.
PushFailNext ==
    \/ CreateWith(1, ConcSessionIds, {16}, {0}, {2})
    \/ PushStartWith(1, ConcSessionIds, ConcBatches)
    \/ loadSessionConfig(1)
    \/ PushMaxSeq(1)
    \/ PushDedup(1)
    \/ PushInsert(1)
    \/ EnforceSum(1)
    \/ EnforceCount(1)
    \/ EnforceSelect(1)
    \/ EnforceApply(1)
    \/ EvictSelect(1)
    \/ EvictDelete(1)
    \/ PushTouch(1)
    \/ PushFinal(1)
    \/ PushFail(1)

PushFailSpec == OpenedInit /\ [][PushFailNext]_vars

\* The session store opened on an existing database, used by one caller.
OpenedNext ==
    \/ CreateWith(1, SessionIds, {16}, {0}, {2})
    \/ PushStartWith(1, SessionIds, ConcBatches)
    \/ loadSessionConfig(1)
    \/ PushMaxSeq(1)
    \/ PushDedup(1)
    \/ PushInsert(1)
    \/ EnforceSum(1)
    \/ EnforceCount(1)
    \/ EnforceSelect(1)
    \/ EnforceApply(1)
    \/ EvictSelect(1)
    \/ EvictDelete(1)
    \/ PushTouch(1)
    \/ PushFinal(1)
    \/ ContextStart(1)
    \/ ContextExists(1)
    \/ ContextEntries(1)
    \/ ContextSavings(1)
    \/ GetStart(1)
    \/ GetSession(1)
    \/ GetSum(1)
    \/ DeleteStart(1)
    \/ DeleteCount(1)
    \/ DeleteExec(1)

OpenedSpec == OpenedInit /\ [][OpenedNext]_vars

(***************************************************************************)
(* The memory store: Store.  Each statement Store issues is one step.      *)
(***************************************************************************)
\* Config.DedupThreshold of the store, in hundredths (DefaultConfig).
MemDedupThreshold == 15

\* The entries a StoreRequest may carry: two near duplicates with tags, one
\* without embedding, one with empty text, one with a zero vector.
StoreEntries ==
    { [text |-> TextSent,  embedding |-> <<1, 0>>, source |-> "docs", tags |-> <<"auth", "jwt">>],
      [text |-> TextShort, embedding |-> <<3, 1>>, source |-> "code", tags |-> <<"auth">>],
      [text |-> TextShort, embedding |-> <<>>,     source |-> "",     tags |-> <<>>],
      [text |-> TextEmpty, embedding |-> <<0, 1>>, source |-> "docs", tags |-> <<>>],
      [text |-> TextLong,  embedding |-> <<0, 0>>, source |-> "docs", tags |-> <<>>] }

\* The id "" findDuplicate returns when it finds no row; ids count from 1.
NoID == 0

\* findDuplicate: SELECT id, embedding FROM memories WHERE embedding IS NOT NULL,
\* the id of the first row within the threshold, NoID when there is none.
RECURSIVE FindFrom(_, _, _, _)
FindFrom(rows, i, embedding, threshold) ==
    IF i > Len(rows) THEN NoID
    ELSE LET existing == decodeEmbedding(rows[i].embedding)
         IN  IF /\ rows[i].embedding # NULL
                /\ Len(existing) # 0
                /\ CosineDistanceBelow(embedding, existing, threshold)
             THEN rows[i].id
             ELSE FindFrom(rows, i + 1, embedding, threshold)

findDuplicate(rows, embedding) == FindFrom(rows, 1, embedding, MemDedupThreshold)

\* The row Store inserts.
NewMemory(id, e, sessionID, now) ==
    [id |-> id, text |-> e.text, embedding |-> encodeEmbedding(e.embedding),
     source |-> e.source, session_id |-> sessionID, decay_level |-> 0,
     created_at |-> now, last_referenced |-> now, access_count |-> 0]

\* A variant of the UPDATE below that leaves the row as it is.
TouchDuplicateNot(rows, id, now) == rows

\* UPDATE memories SET last_referenced = now, access_count = access_count + 1 WHERE id
TouchDuplicate(rows, id, now) ==
    [i \in 1..Len(rows) |->
       IF rows[i].id = id
       THEN [rows[i] EXCEPT !.last_referenced = now, !.access_count = rows[i].access_count + 1]
       ELSE rows[i]]

\* The code of Store's loop from entry l.i up to the next statement it issues.
RECURSIVE StoreAdvance(_)
StoreAdvance(l) ==
    IF l.i > Len(l.entries) THEN [l EXCEPT !.pc = "st_count"]
    ELSE IF l.entries[l.i].text = <<>> THEN StoreAdvance([l EXCEPT !.i = l.i + 1])
    ELSE IF Len(l.entries[l.i].embedding) > 0 THEN [l EXCEPT !.pc = "st_find"]
    ELSE [l EXCEPT !.pc = "st_insert"]

\* The loop over entry.Tags once the memory or a tag is inserted: the next tag,
\* or result.Stored++ and the next entry.
StoreAfterInsert(l) ==
    IF l.ti <= Len(l.entries[l.i].tags) THEN [l EXCEPT !.pc = "st_tag"]
    ELSE StoreAdvance([l EXCEPT !.stored = l.stored + 1, !.i = l.i + 1,
                                !.id = NoID, !.ti = 0])

\* A caller starts Store; the code before the first statement runs with it.
StoreStartWith(p, batches) ==
    /\ CanStart(p)
    /\ \E entries \in batches :
          proc' = [proc EXCEPT ![p] =
                     StoreAdvance(
                       [pc |-> "st_find", op |-> "Store", entries |-> entries, i |-> 1,
                        err |-> "", dupID |-> NoID, id |-> NoID, ti |-> 0,
                        stored |-> 0, deduplicated |-> 0, total_memories |-> 0,
                        before |-> memories,
                        prevEntries |-> IF proc[p].op = "Store" THEN proc[p].entries ELSE <<>>,
                        prevBefore |-> IF proc[p].op = "Store" THEN proc[p].before
                                       ELSE <<NULL>>])]
    /\ calls' = calls + 1
    /\ UNCHANGED <<sessions, session_entries, memories, memory_tags, clock, nextId, pushed, assigned, worker, closed>>

StoreStart(p) == StoreStartWith(p, Batches(StoreEntries))

\* findDuplicate, one query read to its end.
StoreFind(p) ==
    /\ proc[p].pc = "st_find"
    /\ LET l == proc[p]
           dupID == findDuplicate(memories, l.entries[l.i].embedding)
       IN  proc' = [proc EXCEPT ![p] =
                      IF dupID # NoID THEN [l EXCEPT !.pc = "st_touch", !.dupID = dupID]
                      ELSE [l EXCEPT !.pc = "st_insert"]]
    /\ UNCHANGED <<sessions, session_entries, memories, memory_tags, clock, nextId, calls, pushed, assigned, worker, closed>>

\* The UPDATE of the duplicate found; result.Deduplicated++ and the next entry.
StoreTouch(p) ==
    /\ proc[p].pc = "st_touch"
    /\ LET l == proc[p]
           now == clock + 1
       IN  /\ clock' = now
           /\ memories' = TouchDuplicate(memories, l.dupID, now)
           /\ proc' = [proc EXCEPT ![p] =
                         StoreAdvance([l EXCEPT !.deduplicated = l.deduplicated + 1,
                                                !.dupID = NoID, !.i = l.i + 1])]
    /\ UNCHANGED <<sessions, session_entries, memory_tags, nextId, calls, pushed, assigned, worker, closed>>

\* INSERT INTO memories, with a fresh id and created_at = last_referenced = now.
StoreInsert(p) ==
    /\ proc[p].pc = "st_insert"
    /\ LET l == proc[p]
           id == nextId + 1
           now == clock + 1
       IN  /\ nextId' = id
           /\ clock' = now
           /\ memories' = Append(memories, NewMemory(id, l.entries[l.i], "", now))
           /\ proc' = [proc EXCEPT ![p] = StoreAfterInsert([l EXCEPT !.id = id, !.ti = 1])]
    /\ UNCHANGED <<sessions, session_entries, memory_tags, calls, pushed, assigned, worker, closed>>

\* INSERT OR IGNORE INTO memory_tags (memory_id, tag); the foreign key fails
\* it when the memory is gone.
StoreTag(p) ==
    /\ proc[p].pc = "st_tag"
    /\ LET l == proc[p]
           tag == l.entries[l.i].tags[l.ti]
       IN  IF \E i \in 1..Len(memories) : memories[i].id = l.id
           THEN /\ memory_tags' = memory_tags \cup {<<l.id, tag>>}
                /\ proc' = [proc EXCEPT ![p] = StoreAfterInsert([l EXCEPT !.ti = l.ti + 1])]
           ELSE /\ proc' = [proc EXCEPT ![p] = [l EXCEPT !.pc = "done", !.err = "insert tag"]]
                /\ UNCHANGED memory_tags
    /\ UNCHANGED <<sessions, session_entries, memories, clock, nextId, calls, pushed, assigned, worker, closed>>

\* SELECT COUNT(*) FROM memories, and Store returns its result.
StoreCount(p) ==
    /\ proc[p].pc = "st_count"
    /\ proc' = [proc EXCEPT ![p] =
                  [proc[p] EXCEPT !.pc = "done", !.total_memories = Len(memories)]]
    /\ UNCHANGED <<sessions, session_entries, memories, memory_tags, clock, nextId, calls, pushed, assigned, worker, closed>>

\* A variant of the return below that records the error and goes on with
\* the next entry.
StoreFailureSkips(l, msg) ==
    StoreAdvance([l EXCEPT !.err = msg, !.i = l.i + 1, !.dupID = NoID, !.id = NoID, !.ti = 0])

\* if err != nil { return nil, fmt.Errorf(msg, err) }
StoreFailure(l, msg) == [l EXCEPT !.pc = "done", !.err = msg]

\* The statement Store is about to issue fails (the context is cancelled, or
\* the database reports an error): it writes nothing, and Store returns.  The
\* arguments of the statement, time.Now() and generateID(), are evaluated
\* before it.
StoreFail(p) ==
    /\ proc[p].op = "Store"
    /\ proc[p].pc \in {"st_find", "st_touch", "st_insert", "st_tag", "st_count"}
    /\ proc[p].err = ""
    /\ LET l == proc[p]
           msg == CASE l.pc = "st_find"   -> "find duplicate"
                    [] l.pc = "st_touch"  -> "update duplicate"
                    [] l.pc = "st_insert" -> "insert memory"
                    [] l.pc = "st_tag"    -> "insert tag"
                    [] l.pc = "st_count"  -> "count"
       IN  /\ proc' = [proc EXCEPT ![p] = StoreFailure(l, msg)]
           /\ clock' = IF l.pc \in {"st_touch", "st_insert"} THEN clock + 1 ELSE clock
           /\ nextId' = IF l.pc = "st_insert" THEN nextId + 1 ELSE nextId
    /\ UNCHANGED <<sessions, session_entries, memories, memory_tags, calls, pushed, assigned, worker, closed>>

MemoryStep(p) ==
    \/ StoreStart(p)
    \/ StoreFind(p)
    \/ StoreTouch(p)
    \/ StoreInsert(p)
    \/ StoreTag(p)
    \/ StoreCount(p)

\* The memory store used by one caller at a time.
MemNext == MemoryStep(1)

MemSpec == Init /\ [][MemNext]_vars

\* The memory store used by one caller at a time, with statements that fail.
MemFailNext == MemoryStep(1) \/ StoreFail(1)

MemFailSpec == Init /\ [][MemFailNext]_vars

\* The requests of the interleaved Store calls.
ConcStoreBatches ==
    {<<e>> : e \in {x \in StoreEntries : x.text # <<>> /\ Dot(x.embedding, x.embedding) > 0}}

ConcStoreStart(p) == StoreStartWith(p, ConcStoreBatches)

MemConcStep(p) ==
    \/ ConcStoreStart(p)
    \/ StoreFind(p)
    \/ StoreTouch(p)
    \/ StoreInsert(p)
    \/ StoreTag(p)
    \/ StoreCount(p)

\* The memory store used by two callers at once, one statement at a time.
MemNextConc == \E p \in Procs : MemConcStep(p)

MemSpecConc == Init /\ [][MemNextConc]_vars

(***************************************************************************)
(* Timestamps.  The tables keep created_at and last_referenced as the text *)
(* time.Format(time.RFC3339Nano) writes, and SQL compares those texts byte *)
(* by byte.  The model keeps the instant (in ticks) in the row and formats *)
(* it wherever SQL reads the column.  Of the formatted text it keeps the   *)
(* seconds (two digits), the fraction and the zone; the fraction is        *)
(* written without trailing zeros and left out when it is zero.            *)
(***************************************************************************)
TicksPerSecond == 2

Digits == <<"0", "1", "2", "3", "4", "5", "6", "7", "8", "9">>

FormatTime(t) ==
    LET sec == t \div TicksPerSecond
    IN  <<Digits[((sec \div 10) % 10) + 1], Digits[(sec % 10) + 1]>>
           \o (IF t % TicksPerSecond = 0 THEN <<>> ELSE <<".", "5">>) \o <<"Z">>

\* time.Parse(time.RFC3339Nano, s)
ParseTime(s) ==
    LET digit(c) == (CHOOSE i \in 1..10 : Digits[i] = c) - 1
    IN  (10 * digit(s[1]) + digit(s[2])) * TicksPerSecond + (IF Len(s) = 5 THEN 1 ELSE 0)

\* a < b for two TEXT values (BINARY collation: memcmp, then the length).
RECURSIVE TextLess(_, _)
TextLess(a, b) ==
    LET byte(c) == IF c = "." THEN 46 ELSE IF c = "Z" THEN 90
                   ELSE 47 + (CHOOSE i \in 1..10 : Digits[i] = c)
    IN  IF b = <<>> THEN FALSE
        ELSE IF a = <<>> THEN TRUE
        ELSE IF Head(a) # Head(b) THEN byte(Head(a)) < byte(Head(b))
        ELSE TextLess(Tail(a), Tail(b))

(***************************************************************************)
(* The decay worker.  A pass (runOnce) is run by a caller of RunOnce or by *)
(* the goroutine of run(); each statement it issues is one step.           *)
(***************************************************************************)
\* extractSummary
extractSummary(text) ==
    LET result == ExtractiveCompress(text)
    IN  IF result # <<>> THEN result ELSE text

\* extractKeywords of the memory package
decayKeywords(text) ==
    Join(Prefix(KeywordLoop(Fields(text), 1, <<>>), DecayMaxKeywords), <<",", " ">>)

\* The transform decayRows is called with for toLevel.
transform(toLevel, text) ==
    IF toLevel = DecayKeywords THEN decayKeywords(text) ELSE extractSummary(text)

\* transform on the texts a stored memory can have, worked out once.
transformed ==
    LET originals == {e.text : e \in StoreEntries}
        texts == originals \cup {extractSummary(t) : t \in originals}
    IN  [toLevel \in {DecaySummary, DecayKeywords} |-> [t \in texts |-> transform(toLevel, t)]]

\* The three blocks of runOnce in their order: 1 evict, 2 to keywords, 3 to summary.
PhaseAge(cfg, n) ==
    CASE n = 1 -> cfg.EvictAge [] n = 2 -> cfg.KeywordsAge [] n = 3 -> cfg.SummaryAge

\* The code of runOnce from block n up to the next statement it issues, or
\* its return (l.ret is where the goroutine goes on when runOnce returns).
RECURSIVE EnterPhase(_, _, _)
EnterPhase(l, cfg, n) ==
    IF n > 3 THEN [l EXCEPT !.pc = l.ret, !.phase = n, !.entries = <<>>, !.k = 0]
    ELSE IF PhaseAge(cfg, n) > 0
         THEN [l EXCEPT !.pc = IF n = 1 THEN "dk_evict" ELSE "dk_select",
                        !.phase = n, !.entries = <<>>, !.k = 0]
         ELSE EnterPhase(l, cfg, n + 1)

\* A variant of the comparison below that no row passes.
ReferencedNever(row, cutoff) == FALSE

\* The comparison below on the instants instead of their texts.
ReferencedBeforeInstant(row, cutoff) == row.last_referenced < cutoff

\* WHERE last_referenced < cutoff, both as formatted texts.
ReferencedBefore(row, cutoff) ==
    TextLess(FormatTime(row.last_referenced), FormatTime(cutoff))

\* runOnce begins: now := time.Now().UTC().
BeginPass(p, op, ret) ==
    LET now == clock + 1
    IN  /\ clock' = now
        /\ proc' = [proc EXCEPT ![p] =
                      EnterPhase([pc |-> "dk_evict", op |-> op, ret |-> ret, phase |-> 0,
                                  now |-> now, entries |-> <<>>, k |-> 0, before |-> memories,
                                  cfg |-> worker.cfg],
                                 worker.cfg, 1)]

\* ON DELETE CASCADE: the tags of the memories that are left.
TagsOf(rows, tags) == {t \in tags : \E i \in 1..Len(rows) : rows[i].id = t[1]}

\* DELETE FROM memories WHERE last_referenced < evictBefore AND decay_level >= DecayKeywords
DecayEvict(p) ==
    /\ proc[p].pc = "dk_evict"
    /\ LET l == proc[p]
           kept == SelectSeq(memories,
                             LAMBDA r : ~(/\ ReferencedBefore(r, l.now - l.cfg.EvictAge)
                                          /\ r.decay_level >= DecayKeywords))
       IN  /\ memories' = kept
           /\ memory_tags' = TagsOf(kept, memory_tags)
           /\ proc' = [proc EXCEPT ![p] = EnterPhase(l, l.cfg, 2)]
    /\ UNCHANGED <<sessions, session_entries, clock, nextId, calls, pushed, assigned, worker, closed>>

\* decayRows: SELECT id, text FROM memories WHERE last_referenced < cutoff AND
\* decay_level = fromLevel, read to its end.
DecaySelect(p) ==
    /\ proc[p].pc = "dk_select"
    /\ LET l == proc[p]
           fromLevel == IF l.phase = 2 THEN DecaySummary ELSE DecayFull
           cutoff == l.now - PhaseAge(l.cfg, l.phase)
           hits == SelectSeq(memories,
                             LAMBDA r : ReferencedBefore(r, cutoff) /\ r.decay_level = fromLevel)
           entries == [i \in 1..Len(hits) |-> [id |-> hits[i].id, text |-> hits[i].text]]
       IN  proc' = [proc EXCEPT ![p] =
                      IF entries = <<>> THEN EnterPhase(l, l.cfg, l.phase + 1)
                      ELSE [l EXCEPT !.pc = "dk_update", !.entries = entries, !.k = 1]]
    /\ UNCHANGED <<sessions, session_entries, memories, memory_tags, clock, nextId, calls, pushed, assigned, worker, closed>>

\* decayRows: UPDATE memories SET text = transform(e.text), decay_level = toLevel
\* WHERE id = e.id, for the next entry read.
DecayUpdate(p) ==
    /\ proc[p].pc = "dk_update"
    /\ LET l == proc[p]
           e == l.entries[l.k]
           toLevel == IF l.phase = 2 THEN DecayKeywords ELSE DecaySummary
           compressed == IF e.text \in DOMAIN transformed[toLevel] THEN transformed[toLevel][e.text]
                         ELSE transform(toLevel, e.text)
       IN  /\ memories' = [i \in 1..Len(memories) |->
                             IF memories[i].id = e.id
                             THEN [memories[i] EXCEPT !.text = compressed, !.decay_level = toLevel]
                             ELSE memories[i]]
           /\ proc' = [proc EXCEPT ![p] =
                         IF l.k < Len(l.entries) THEN [l EXCEPT !.k = l.k + 1]
                         ELSE EnterPhase(l, l.cfg, l.phase + 1)]
    /\ UNCHANGED <<sessions, session_entries, memory_tags, clock, nextId, calls, pushed, assigned, worker, closed>>

\* A caller starts RunOnce.
RunOnceStart(p) ==
    /\ CanStart(p)
    /\ BeginPass(p, "RunOnce", "done")
    /\ calls' = calls + 1
    /\ UNCHANGED <<sessions, session_entries, memories, memory_tags, nextId, pushed, assigned, worker, closed>>

\* Time passes, up to the tick last.
Tick(last) ==
    /\ clock < last
    /\ clock' = clock + 1
    /\ UNCHANGED <<sessions, session_entries, memories, memory_tags, nextId, calls, proc, pushed, assigned, worker, closed>>

\* The configurations the decay worker is built with: the default ages, and
\* the ages of TestDecayWorker (SummaryAge = KeywordsAge, no eviction).
DecayConfigs ==
    {DefaultAges, [SummaryAge |-> 2, KeywordsAge |-> 2, EvictAge |-> 0, DecayInterval |-> 1]}

\* The requests stored while memories decay: a memory, and a near duplicate of it.
DecayBatches ==
    {<<e>> : e \in {x \in StoreEntries : x.tags # <<>>}}

DecayStep(p) ==
    \/ StoreStartWith(p, DecayBatches)
    \/ StoreFind(p)
    \/ StoreTouch(p)
    \/ StoreInsert(p)
    \/ StoreTag(p)
    \/ StoreCount(p)
    \/ RunOnceStart(p)
    \/ DecayEvict(p)
    \/ DecaySelect(p)
    \/ DecayUpdate(p)

\* The memory store and RunOnce used by one caller, while time passes.
DecayNext == DecayStep(1) \/ Tick(MaxClock)

DecayInit == InitStores /\ \E cfg \in DecayConfigs : worker = NewDecayWorker(cfg)

DecaySpec == DecayInit /\ [][DecayNext]_vars

\* Start: go w.run(), which creates its ticker and waits in the select.
WorkerStart ==
    /\ proc[Worker].pc = "idle"
    /\ worker.ticker = "none"
    /\ worker' = [worker EXCEPT !.ticker = "running",
                                !.nextTick = clock + worker.cfg.DecayInterval]
    /\ proc' = [proc EXCEPT ![Worker] = [pc |-> "select", op |-> "run"]]
    /\ UNCHANGED <<sessions, session_entries, memories, memory_tags, clock, nextId, calls, pushed, assigned, closed>>

\* The ticker sends on ticker.C (buffer of one; a tick nobody took is dropped);
\* its ticks are followed up to the tick last.
TickerFire(last) ==
    /\ worker.ticker = "running"
    /\ worker.nextTick <= clock
    /\ worker.nextTick <= last
    /\ worker' = [worker EXCEPT !.tick = TRUE,
                                !.nextTick = worker.nextTick + worker.cfg.DecayInterval]
    /\ UNCHANGED <<sessions, session_entries, memories, memory_tags, clock, nextId, calls, proc, pushed, assigned, closed>>

\* select: case <-ticker.C, and runOnce begins.
WorkerTick ==
    /\ proc[Worker].pc = "select"
    /\ worker.tick
    /\ worker' = [worker EXCEPT !.tick = FALSE]
    /\ BeginPass(Worker, "run", "select")
    /\ UNCHANGED <<sessions, session_entries, memories, memory_tags, nextId, calls, pushed, assigned, closed>>

\* select: case <-w.stopCh, run returns and the deferred ticker.Stop() runs.
WorkerReturn ==
    /\ proc[Worker].pc = "select"
    /\ worker.stopCh = "closed"
    /\ worker' = [worker EXCEPT !.ticker = "stopped"]
    /\ proc' = [proc EXCEPT ![Worker] = [proc[Worker] EXCEPT !.pc = "returned"]]
    /\ UNCHANGED <<sessions, session_entries, memories, memory_tags, clock, nextId, calls, pushed, assigned, closed>>

\* Stop: close(w.stopCh).
Stop ==
    /\ worker.stopCh = "open"
    /\ worker' = [worker EXCEPT !.stopCh = "closed"]
    /\ UNCHANGED <<sessions, session_entries, memories, memory_tags, clock, nextId, calls, proc, pushed, assigned, closed>>

\* The memory store with a caller and the started worker, one statement at a time.
DecayNextConc ==
    \/ DecayStep(1)
    \/ Tick(MaxClockConc)
    \/ WorkerStart
    \/ TickerFire(MaxClockConc)
    \/ WorkerTick
    \/ DecayEvict(Worker)
    \/ DecaySelect(Worker)
    \/ DecayUpdate(Worker)

DecaySpecConc == DecayInit /\ [][DecayNextConc]_vars

\* The request stored while the worker runs: a memory, alone or followed by a
\* near duplicate of it.
WorkerBatches ==
    {<<e>> \o rest : e \in {x \in StoreEntries : Len(x.tags) = 2},
                     rest \in {<<>>} \cup {<<d>> : d \in {x \in StoreEntries : Len(x.tags) = 1}}}

\* The memory store with the background worker: a caller stores one request,
\* the worker is started and may be stopped, time passes.
WorkerNext ==
    \/ (calls = 0 /\ StoreStartWith(1, WorkerBatches))
    \/ StoreFind(1)
    \/ StoreTouch(1)
    \/ StoreInsert(1)
    \/ StoreTag(1)
    \/ StoreCount(1)
    \/ Tick(MaxClockConc)
    \/ (clock < MaxClockConc /\ WorkerStart)
    \/ TickerFire(MaxClock)
    \/ WorkerTick
    \/ DecayEvict(Worker)
    \/ DecaySelect(Worker)
    \/ DecayUpdate(Worker)
    \/ Stop
    \/ WorkerReturn

\* The steps the scheduler, the ticker and the clock take on their own.
\* Nothing makes anyone call Start or Stop.
WorkerProgress ==
    \/ Tick(MaxClockConc)
    \/ TickerFire(MaxClock)
    \/ WorkerTick
    \/ DecayEvict(Worker)
    \/ DecaySelect(Worker)
    \/ DecayUpdate(Worker)
    \/ WorkerReturn
    \/ StoreFind(1)
    \/ StoreTouch(1)
    \/ StoreInsert(1)
    \/ StoreTag(1)
    \/ StoreCount(1)

\* A goroutine that can take a step is scheduled, the ticker keeps ticking
\* and time goes on: some step of WorkerProgress is taken whenever one can be.
WorkerSpec == Init /\ [][WorkerNext]_vars /\ WF_vars(WorkerProgress)

(***************************************************************************)
(* The memory store: Recall.  Each statement Recall issues is one step.    *)
(***************************************************************************)
\* The similarity of a row to the query embedding, 1 - CosineDistance, as the
\* pair <<dot, |row|^2>> of cos = dot / (|query| |row|); <<0, 1>> stands for 0
\* (no query embedding, no row embedding, or a zero norm).
Similarity(queryEmbedding, embBlob) ==
    LET existing == decodeEmbedding(embBlob)
    IN  IF /\ Len(queryEmbedding) > 0
           /\ Len(existing) > 0
           /\ Dot(queryEmbedding, queryEmbedding) > 0
           /\ Dot(existing, existing) > 0
        THEN <<Dot(queryEmbedding, existing), Dot(existing, existing)>>
        ELSE <<0, 1>>

\* c1.relevance < c2.relevance for relevance = (1 - w) * similarity + w * recency,
\* w = weight / 10 and recency = 1 / (1 + age / 24h), decided exactly.  With
\* D = 24h in ticks the sign of the difference is the sign of
\*   (10 - weight) * (s1 - s2) * (D + a1) * (D + a2) + 10 * weight * D * (a2 - a1)
\* and the ages of the model are a few ticks, far below D: the term in D * D
\* decides when it is not zero, then the term in D.
RelevanceLess(c1, c2, weight) ==
    LET simLess(x, y) == x[1] * x[1] * y[2] < y[1] * y[1] * x[2]
    IN  IF weight < 10 /\ (simLess(c1.sim, c2.sim) \/ simLess(c2.sim, c1.sim))
        THEN simLess(c1.sim, c2.sim)
        ELSE weight > 0 /\ c1.age > c2.age

\* A variant of the sort below that also moves a key past its equals.
sortByRelevancePastEquals(candidates, weight) ==
    LET RECURSIVE Place(_, _, _)
        Place(sorted, j, key) ==
            IF j >= 1 /\ ~RelevanceLess(key, sorted[j], weight) THEN Place(sorted, j - 1, key)
            ELSE SubSeq(sorted, 1, j) \o <<key>> \o SubSeq(sorted, j + 1, Len(sorted))
        RECURSIVE From(_, _)
        From(sorted, i) ==
            IF i > Len(candidates) THEN sorted
            ELSE From(Place(sorted, Len(sorted), candidates[i]), i + 1)
    IN  From(<<>>, 1)

\* sortByRelevance: insertion sort, a key moves left past the candidates of
\* smaller relevance only.
sortByRelevance(candidates, weight) ==
    LET RECURSIVE Place(_, _, _)
        Place(sorted, j, key) ==
            IF j >= 1 /\ RelevanceLess(sorted[j], key, weight) THEN Place(sorted, j - 1, key)
            ELSE SubSeq(sorted, 1, j) \o <<key>> \o SubSeq(sorted, j + 1, Len(sorted))
        RECURSIVE From(_, _)
        From(sorted, i) ==
            IF i > Len(candidates) THEN sorted
            ELSE From(Place(sorted, Len(sorted), candidates[i]), i + 1)
    IN  From(<<>>, 1)

\* A variant of the walk below that skips a candidate over the token budget
\* and goes on.
RecallWalkSkipping(candidates, maxResults, maxTokens) ==
    LET RECURSIVE Walk(_, _, _)
        Walk(i, results, tokenCount) ==
            IF i > Len(candidates) \/ Len(results) >= maxResults
            THEN [results |-> results, tokenCount |-> tokenCount]
            ELSE LET tokens == estimateTokens(candidates[i].text)
                 IN  IF maxTokens > 0 /\ tokenCount + tokens > maxTokens
                     THEN Walk(i + 1, results, tokenCount)
                     ELSE Walk(i + 1, Append(results, candidates[i]), tokenCount + tokens)
    IN  Walk(1, <<>>, 0)

\* The loop of Recall over the sorted candidates: the results and their tokens.
RecallWalk(candidates, maxResults, maxTokens) ==
    LET RECURSIVE Walk(_, _, _)
        Walk(i, results, tokenCount) ==
            IF i > Len(candidates) \/ Len(results) >= maxResults
            THEN [results |-> results, tokenCount |-> tokenCount]
            ELSE LET tokens == estimateTokens(candidates[i].text)
                 IN  IF maxTokens > 0 /\ tokenCount + tokens > maxTokens
                     THEN [results |-> results, tokenCount |-> tokenCount]
                     ELSE Walk(i + 1, Append(results, candidates[i]), tokenCount + tokens)
    IN  Walk(1, <<>>, 0)

\* The code of Recall after its last loadTags: sort, walk, and the statement
\* of touchMemories when anything is returned.
RecallRank(l) ==
    LET sorted == sortByRelevance(l.candidates, l.recencyWeight)
        walked == RecallWalk(sorted, l.maxResults, l.req.max_tokens)
    IN  [l EXCEPT !.pc = IF walked.results # <<>> THEN "rc_touch" ELSE "done",
                  !.candidates = sorted,
                  !.results = walked.results,
                  !.stats = [candidates |-> Len(sorted),
                             deduplicated |-> Len(sorted) - Len(walked.results),
                             returned |-> Len(walked.results),
                             token_count |-> walked.tokenCount]]

\* The requests Recall is called with.
RecallRequests ==
    [query : {TextEmpty, TextShort},
     query_embedding : {<<>>, <<1, 0>>},
     tags : {<<>>, <<"jwt", "none">>},
     max_results : {0, 1},
     max_tokens : {0, 15},
     recency_weight : {-5, 5, 15}]

\* A variant of the check below that lets every request through.
InvalidQueryNever(req) == FALSE

\* req.Query == "" && len(req.QueryEmbedding) == 0
InvalidQuery(req) == req.query = <<>> /\ Len(req.query_embedding) = 0

\* A caller starts Recall: the checks and defaults before the first statement.
RecallStart(p) ==
    /\ CanStart(p)
    /\ \E req \in RecallRequests :
          proc' = [proc EXCEPT ![p] =
                     [pc |-> IF InvalidQuery(req) THEN "done" ELSE "rc_select",
                      op |-> "Recall", req |-> req,
                      err |-> IF InvalidQuery(req) THEN "InvalidQuery" ELSE "",
                      maxResults |-> IF req.max_results <= 0 THEN DefaultMaxResults
                                     ELSE req.max_results,
                      recencyWeight |-> IF req.recency_weight < 0 THEN 0
                                        ELSE IF req.recency_weight > 10 THEN 10
                                        ELSE req.recency_weight,
                      rawRows |-> <<>>, k |-> 0, now |-> 0, touched |-> 0,
                      candidates |-> <<>>, results |-> <<>>, stats |-> <<>>,
                      before |-> memories, beforeTags |-> memory_tags]]
    /\ calls' = calls + 1
    /\ UNCHANGED <<sessions, session_entries, memories, memory_tags, clock, nextId, pushed, assigned, worker, closed>>

\* A variant of the filter below that wants every tag of the request.
HasAnyTagAll(tags, id, wanted) ==
    \A i \in 1..Len(wanted) : <<id, wanted[i]>> \in tags

\* m.id IN (SELECT memory_id FROM memory_tags WHERE tag IN (...))
HasAnyTag(tags, id, wanted) ==
    \E i \in 1..Len(wanted) : <<id, wanted[i]>> \in tags

\* SELECT ... FROM memories m [WHERE m.id IN (...)], read to its end, and
\* now := time.Now().
RecallSelect(p) ==
    /\ proc[p].pc = "rc_select"
    /\ LET l == proc[p]
           rawRows == IF Len(l.req.tags) > 0
                      THEN SelectSeq(memories, LAMBDA r : HasAnyTag(memory_tags, r.id, l.req.tags))
                      ELSE memories
           now == clock + 1
           read == [l EXCEPT !.rawRows = rawRows, !.now = now, !.k = 1]
       IN  /\ clock' = now
           /\ proc' = [proc EXCEPT ![p] =
                         IF rawRows = <<>> THEN RecallRank(read)
                         ELSE [read EXCEPT !.pc = "rc_tags"]]
    /\ UNCHANGED <<sessions, session_entries, memories, memory_tags, nextId, calls, pushed, assigned, worker, closed>>

\* loadTags of the next row read (SELECT tag FROM memory_tags WHERE memory_id),
\* and the candidate made of the row.
RecallLoadTags(p) ==
    /\ proc[p].pc = "rc_tags"
    /\ LET l == proc[p]
           r == l.rawRows[l.k]
           age == l.now - ParseTime(FormatTime(r.last_referenced))
           c == [id |-> r.id, text |-> r.text, source |-> r.source,
                 tags |-> {t[2] : t \in {x \in memory_tags : x[1] = r.id}},
                 sim |-> Similarity(l.req.query_embedding, r.embedding),
                 age |-> IF age > 0 THEN age ELSE 0,
                 decay_level |-> r.decay_level,
                 last_referenced |-> ParseTime(FormatTime(r.last_referenced))]
           more == [l EXCEPT !.candidates = Append(l.candidates, c), !.k = l.k + 1]
       IN  proc' = [proc EXCEPT ![p] =
                      IF l.k < Len(l.rawRows) THEN more ELSE RecallRank(more)]
    /\ UNCHANGED <<sessions, session_entries, memories, memory_tags, clock, nextId, calls, pushed, assigned, worker, closed>>

\* A variant of the UPDATE below that touches every memory.
touchMemoriesAll(rows, ids, now) ==
    [i \in 1..Len(rows) |->
       [rows[i] EXCEPT !.last_referenced = now, !.access_count = rows[i].access_count + 1]]

\* UPDATE memories SET last_referenced = now, access_count = access_count + 1
\* WHERE id IN (ids)
touchMemories(rows, ids, now) ==
    [i \in 1..Len(rows) |->
       IF rows[i].id \in ids
       THEN [rows[i] EXCEPT !.last_referenced = now, !.access_count = rows[i].access_count + 1]
       ELSE rows[i]]

\* touchMemories of the memories returned, and Recall returns.
RecallTouch(p) ==
    /\ proc[p].pc = "rc_touch"
    /\ LET l == proc[p]
           now == clock + 1
       IN  /\ clock' = now
           /\ memories' = touchMemories(memories,
                                        {l.results[i].id : i \in 1..Len(l.results)}, now)
           /\ proc' = [proc EXCEPT ![p] = [l EXCEPT !.pc = "done", !.touched = now]]
    /\ UNCHANGED <<sessions, session_entries, memory_tags, nextId, calls, pushed, assigned, worker, closed>>

\* The requests stored before a Recall: a memory with tags and an embedding,
\* one without either, one with a zero vector, alone or in pairs.
RecallBatches ==
    Batches({x \in StoreEntries : x.text # <<>> /\ Len(x.tags) # 1})

\* The memory store with Store and Recall, used by one caller at a time.
RecallNext ==
    \/ StoreStartWith(1, RecallBatches)
    \/ StoreFind(1)
    \/ StoreTouch(1)
    \/ StoreInsert(1)
    \/ StoreTag(1)
    \/ StoreCount(1)
    \/ RecallStart(1)
    \/ RecallSelect(1)
    \/ RecallLoadTags(1)
    \/ RecallTouch(1)

RecallSpec == Init /\ [][RecallNext]_vars

(***************************************************************************)
(* Forget.                                                                 *)
(***************************************************************************)
\* The zero time.Time, for which OlderThan.IsZero() holds.
ZeroTime == 0

\* The requests Forget is called with: ids of memories stored or never
\* stored, tags, and an instant on or between whole seconds.
ForgetRequests ==
    [ids : {<<>>, <<1>>, <<2, 9>>},
     tags : {<<>>, <<"jwt", "none">>},
     older_than : {ZeroTime, 22, 23}]

\* A variant of the comparison below on the instants instead of their texts.
CreatedBeforeInstant(row, olderThan) == row.created_at < olderThan

\* WHERE created_at < OlderThan.UTC().Format(time.RFC3339Nano), both as texts.
CreatedBefore(row, olderThan) ==
    TextLess(FormatTime(row.created_at), FormatTime(olderThan))

\* The conditions of the DELETE, joined by AND: one for each filter supplied.
ForgetConditions(req, tags, row) ==
    /\ Len(req.ids) > 0 => \E i \in 1..Len(req.ids) : req.ids[i] = row.id
    /\ Len(req.tags) > 0 => HasAnyTag(tags, row.id, req.tags)
    /\ req.older_than # ZeroTime => CreatedBefore(row, req.older_than)

\* A caller starts Forget: with no condition it returns an empty result.
ForgetStart(p) ==
    /\ CanStart(p)
    /\ \E req \in ForgetRequests :
          proc' = [proc EXCEPT ![p] =
                     [pc |-> IF Len(req.ids) = 0 /\ Len(req.tags) = 0 /\ req.older_than = ZeroTime
                             THEN "done" ELSE "fg_delete",
                      op |-> "Forget", req |-> req, err |-> "",
                      removed |-> 0, total_memories |-> 0,
                      before |-> memories, beforeTags |-> memory_tags]]
    /\ calls' = calls + 1
    /\ UNCHANGED <<sessions, session_entries, memories, memory_tags, clock, nextId, pushed, assigned, worker, closed>>

\* DELETE FROM memories WHERE conditions; the tags of the rows go with them
\* (ON DELETE CASCADE); removed = RowsAffected.
ForgetDelete(p) ==
    /\ proc[p].pc = "fg_delete"
    /\ LET l == proc[p]
           kept == SelectSeq(memories, LAMBDA r : ~ForgetConditions(l.req, memory_tags, r))
       IN  /\ memories' = kept
           /\ memory_tags' = TagsOf(kept, memory_tags)
           /\ proc' = [proc EXCEPT ![p] =
                         [l EXCEPT !.pc = "fg_count", !.removed = Len(memories) - Len(kept)]]
    /\ UNCHANGED <<sessions, session_entries, clock, nextId, calls, pushed, assigned, worker, closed>>

\* SELECT COUNT(*) FROM memories, and Forget returns its result.
ForgetCount(p) ==
    /\ proc[p].pc = "fg_count"
    /\ proc' = [proc EXCEPT ![p] =
                  [proc[p] EXCEPT !.pc = "done", !.total_memories = Len(memories)]]
    /\ UNCHANGED <<sessions, session_entries, memories, memory_tags, clock, nextId, calls, pushed, assigned, worker, closed>>

\* The requests stored before a Forget: one memory each, with two tags and
\* an embedding, without either, or with a zero vector.
ForgetBatches ==
    {<<e>> : e \in {x \in StoreEntries : x.text # <<>> /\ Len(x.tags) # 1}}

\* The memory store with Store and Forget, used by one caller at a time
\* while time passes.
ForgetNext ==
    \/ StoreStartWith(1, ForgetBatches)
    \/ StoreFind(1)
    \/ StoreTouch(1)
    \/ StoreInsert(1)
    \/ StoreTag(1)
    \/ StoreCount(1)
    \/ ForgetStart(1)
    \/ ForgetDelete(1)
    \/ ForgetCount(1)
    \/ Tick(MaxClockConc)

ForgetSpec == Init /\ [][ForgetNext]_vars

(***************************************************************************)
(* Close.  Close is db.Close(); the stores keep no flag of their own, and  *)
(* after it every statement fails with the error of database/sql ("sql:    *)
(* database is closed").  Each call then does with that error what it does *)
(* with any failed statement.                                              *)
(***************************************************************************)
\* Close of one of the stores returns.
Close(p, store) ==
    /\ CanStart(p)
    /\ closed' = closed \cup {store}
    /\ proc' = [proc EXCEPT ![p] = [pc |-> "done", op |-> "Close", store |-> store, err |-> ""]]
    /\ calls' = calls + 1
    /\ UNCHANGED <<sessions, session_entries, memories, memory_tags, clock, nextId, pushed, assigned, worker>>

\* Create whose INSERT fails for another reason than the UNIQUE constraint.
CreateFail(p, sids) ==
    /\ CanStart(p)
    /\ \E sid \in sids :
          proc' = [proc EXCEPT ![p] =
                     [pc |-> "done", op |-> "Create", sid |-> sid, err |-> "insert session"]]
    /\ clock' = clock + 1
    /\ calls' = calls + 1
    /\ UNCHANGED <<sessions, session_entries, memories, memory_tags, nextId, pushed, assigned, worker, closed>>

\* The statement Context is about to issue fails: the first is taken for a
\* missing session (err != nil || exists == 0), the second is returned, the
\* third is discarded.
ContextFail(p) ==
    /\ proc[p].op = "Context"
    /\ proc[p].pc \in {"ctx_exists", "ctx_entries", "ctx_savings"}
    /\ LET l == proc[p]
       IN  proc' = [proc EXCEPT ![p] =
                      CASE l.pc = "ctx_exists"  ->
                             [l EXCEPT !.pc = "done", !.err = "SessionNotFound"]
                        [] l.pc = "ctx_entries" -> [l EXCEPT !.pc = "done", !.err = "query entries"]
                        [] l.pc = "ctx_savings" ->
                             [l EXCEPT !.pc = "done",
                                       !.compression_savings = 0 - l.total_tokens]]
    /\ UNCHANGED <<sessions, session_entries, memories, memory_tags, clock, nextId, calls, pushed, assigned, worker, closed>>

\* The statement Get is about to issue fails: the first is returned, the
\* second is discarded.
GetFail(p) ==
    /\ proc[p].op = "Get"
    /\ proc[p].pc \in {"get_session", "get_sum"}
    /\ LET l == proc[p]
       IN  proc' = [proc EXCEPT ![p] =
                      IF l.pc = "get_session"
                      THEN [l EXCEPT !.pc = "done", !.err = "select session"]
                      ELSE [l EXCEPT !.pc = "done"]]
    /\ UNCHANGED <<sessions, session_entries, memories, memory_tags, clock, nextId, calls, pushed, assigned, worker, closed>>

\* The statement Delete is about to issue fails: the count is discarded, the
\* DELETE is returned.
DeleteFail(p) ==
    /\ proc[p].op = "Delete"
    /\ proc[p].pc \in {"del_count", "del_exec"}
    /\ LET l == proc[p]
       IN  proc' = [proc EXCEPT ![p] =
                      IF l.pc = "del_count" THEN [l EXCEPT !.pc = "del_exec"]
                      ELSE [l EXCEPT !.pc = "done", !.err = "delete session"]]
    /\ UNCHANGED <<sessions, session_entries, memories, memory_tags, clock, nextId, calls, pushed, assigned, worker, closed>>

\* The statement Forget is about to issue fails, and Forget returns the error.
ForgetFail(p) ==
    /\ proc[p].op = "Forget"
    /\ proc[p].pc \in {"fg_delete", "fg_count"}
    /\ LET l == proc[p]
       IN  proc' = [proc EXCEPT ![p] =
                      [l EXCEPT !.pc = "done",
                                !.err = IF l.pc = "fg_delete" THEN "delete memories"
                                        ELSE "count"]]
    /\ UNCHANGED <<sessions, session_entries, memories, memory_tags, clock, nextId, calls, pushed, assigned, worker, closed>>

\* The calls on the session store: those that begin without a statement.
CloseSessionStart ==
    \/ PushStartWith(1, ConcSessionIds, ConcBatches)
    \/ ContextStartWith(1, SessionIds, {0}, {""})
    \/ GetStartWith(1, SessionIds)
    \/ DeleteStartWith(1, SessionIds)

\* The statements of the session store while it is open.
CloseSessionOpen ==
    \/ CreateWith(1, ConcSessionIds, {16}, {0}, {2})
    \/ loadSessionConfig(1)
    \/ PushMaxSeq(1)
    \/ PushDedup(1)
    \/ PushInsert(1)
    \/ EnforceSum(1)
    \/ EnforceCount(1)
    \/ EnforceSelect(1)
    \/ EnforceApply(1)
    \/ EvictSelect(1)
    \/ EvictDelete(1)
    \/ PushTouch(1)
    \/ PushFinal(1)
    \/ ContextExists(1)
    \/ ContextEntries(1)
    \/ ContextSavings(1)
    \/ GetSession(1)
    \/ GetSum(1)
    \/ DeleteCount(1)
    \/ DeleteExec(1)

\* The statements of the session store once it is closed.
CloseSessionClosed ==
    \/ CreateFail(1, ConcSessionIds)
    \/ PushFail(1)
    \/ ContextFail(1)
    \/ GetFail(1)
    \/ DeleteFail(1)

\* The calls and statements of the memory store while it is open.
CloseMemoryOpen ==
    \/ StoreFind(1)
    \/ StoreTouch(1)
    \/ StoreInsert(1)
    \/ StoreTag(1)
    \/ StoreCount(1)
    \/ ForgetDelete(1)
    \/ ForgetCount(1)

\* Both stores, opened on existing databases and used by one caller who
\* closes them at some point and goes on calling.
CloseNext ==
    \/ Close(1, "session")
    \/ Close(1, "memory")
    \/ CloseSessionStart
    \/ "session" \notin closed /\ CloseSessionOpen
    \/ "session" \in closed /\ CloseSessionClosed
    \/ StoreStartWith(1, ForgetBatches)
    \/ ForgetStart(1)
    \/ "memory" \notin closed /\ CloseMemoryOpen
    \/ "memory" \in closed /\ (StoreFail(1) \/ ForgetFail(1))

CloseSpec == OpenedInit /\ [][CloseNext]_vars

(***************************************************************************)
(* Scenario S2 (TestBudgetEnforcement): a session with a tight budget and  *)
(* one Push of three messages of 50 characters with importances 0.3, 0.5   *)
(* and 1.0.  The specification runs the scenario at the budget of the      *)
(* scenario and at a tighter one, with one and with three preserved        *)
(* entries.                                                                *)
(***************************************************************************)
\* The importances of the three messages, in tenths.
S2Importances == <<3, 5, 10>>

\* PushRequest.Entries of the scenario: three messages, in this order of importance.
S2Batches ==
    { [i \in 1..3 |-> [role |-> "user", content |-> t[i], source |-> "",
                       embedding |-> <<>>, importance |-> S2Importances[i]]]
        : t \in [1..3 -> S2Texts] }

\* CreateRequest.MaxTokens and PreserveRecent of the scenario, and other settings of each.
S2MaxTokens == {50, 30, 20}
S2PreserveRecent == {1, 3}

S2Next ==
    \/ CreateWith(1, {"s1"}, S2MaxTokens, {0}, S2PreserveRecent)
    \/ PushStartWith(1, {"s1"}, S2Batches)
    \/ loadSessionConfig(1)
    \/ PushMaxSeq(1)
    \/ PushInsert(1)
    \/ EnforceSum(1)
    \/ EnforceCount(1)
    \/ EnforceSelect(1)
    \/ EnforceApply(1)
    \/ EvictSelect(1)
    \/ EvictDelete(1)
    \/ PushTouch(1)
    \/ PushFinal(1)

S2Spec == Init /\ [][S2Next]_vars

(***************************************************************************)
(* A session that has grown past the length sort.Slice sorts by insertion: *)
(* the store is opened on a database holding session s2 with thirteen      *)
(* entries, within its budget, pushed before the file was closed.          *)
(***************************************************************************)
\* importance of the entries of s2 in seq order, in tenths.
LongImportances == <<1, 2, 3, 4, 5, 6, 7, 8, 9, 10, 11, 12, 1>>

\* max_tokens of s2: the thirteen entries of 14 tokens fit, one more does not.
LongMaxTokens == 190

LongInit ==
    LET n == Len(LongImportances)
        created == StartTime - n - 2
        e(i) == [role |-> "tool", content |-> TextSent, source |-> "file_read",
                 embedding |-> <<>>, importance |-> LongImportances[i]]
    IN  /\ sessions = ("s2" :> [NewSession(LongMaxTokens, 0, 1, created)
                                  EXCEPT !.updated_at = StartTime - 1])
        /\ session_entries = [i \in 1..n |-> NewEntry(i, "s2", e(i), i, created + i)]
        /\ memories = <<>>
        /\ memory_tags = {}
        /\ clock = StartTime
        /\ nextId = n
        /\ calls = 0
        /\ proc = [p \in Procs \cup {Worker} |-> Idle]
        /\ pushed = [i \in 1..n |-> TextSent]
        /\ assigned = [i \in 1..n |-> [sid |-> "s2", created_at |-> created, seq |-> i]]
        /\ worker = NewDecayWorker(DefaultAges)
        /\ closed = {}

\* The Push requests on the long session.
LongBatches ==
    Batches({x \in PushEntries : \/ x.content = TextShort /\ x.embedding = <<>>
                                 \/ x.content = TextSent})

LongNext ==
    \/ PushStartWith(1, {"s2"}, LongBatches)
    \/ loadSessionConfig(1)
    \/ PushMaxSeq(1)
    \/ PushDedup(1)
    \/ PushInsert(1)
    \/ EnforceSum(1)
    \/ EnforceCount(1)
    \/ EnforceSelect(1)
    \/ EnforceApply(1)
    \/ PushTouch(1)
    \/ PushFinal(1)

LongSpec == LongInit /\ [][LongNext]_vars

(***************************************************************************)
(* The compressors at work: one session with room for one entry and a      *)
(* little more, and Pushes of one entry whose older neighbour enforcement  *)
(* takes through the levels (CompressSpec).                                *)
(***************************************************************************)
CompressMaxTokens == {14, 16}

CompressPreserveRecent == {1, 2}

CompressBatches ==
    {<<[role |-> "user", content |-> t, source |-> "",
        embedding |-> IF t = TextSent THEN <<1, 0>> ELSE <<>>, importance |-> 0]>> :
        t \in {TextShort, TextSent, TextWord}}

CompressNext ==
    \/ CreateWith(1, {"s1"}, CompressMaxTokens, {0}, CompressPreserveRecent)
    \/ PushStartWith(1, {"s1"}, CompressBatches)
    \/ PushProgress(1)

CompressSpec == Init /\ [][CompressNext]_vars

(***************************************************************************)
(* Properties of Push under Spec (calls one after another).                *)
(***************************************************************************)
\* A Push has returned on process p without an error.
PushReturned(p) == proc[p].pc = "done" /\ proc[p].op = "Push" /\ proc[p].err = ""

C2_OverBudgetUnchanged ==
    \A p \in Procs :
       (proc[p].pc = "done" /\ proc[p].op = "Push" /\ proc[p].err = "OverBudget")
          => SessionRows(session_entries, proc[p].sid) = proc[p].before

\* C3: when a Push has returned and fallback eviction did not fire, the
\* preserve_recent entries of largest seq that enforcement found are still
\* stored at compression_level 0, and so are the last preserve_recent entries now.
C3_PreserveRecent ==
    \A p \in Procs :
       (PushReturned(p) /\ ~proc[p].fallback) =>
          LET sid == proc[p].sid
              own == SessionRows(session_entries, sid)
              k == proc[p].sess.preserve_recent
              AtFull(id) == \E i \in 1..Len(own) :
                               own[i].id = id /\ own[i].compression_level = LevelFull
          IN  /\ \A id \in proc[p].tail : AtFull(id)
              /\ \A id \in TailIds(session_entries, sid, k) : AtFull(id)

\* C3 witness: a Push returned without fallback after enforcement acted on a
\* session holding more than preserve_recent > 0 entries.
C3_Witness ==
    \E p \in Procs :
       /\ PushReturned(p)
       /\ ~proc[p].fallback
       /\ proc[p].compressed + proc[p].evicted > 0
       /\ proc[p].sess.preserve_recent > 0
       /\ CountEntries(session_entries, proc[p].sid) > proc[p].sess.preserve_recent

\* C7: in every session no two stored entries that carry an embedding are
\* within the session's dedup_threshold of each other, and a returned Push
\* counted every non-empty entry of its batch as accepted (inserted) or as
\* deduplicated (skipped).
C7_SessionDedup ==
    /\ \A sid \in DOMAIN sessions :
          LET own == SessionRows(session_entries, sid)
          IN  \A i, j \in 1..Len(own) :
                 (i # j /\ own[i].embedding # NULL /\ own[j].embedding # NULL) =>
                    ~CosineDistanceBelow(decodeEmbedding(own[i].embedding),
                                         decodeEmbedding(own[j].embedding),
                                         sessions[sid].dedup_threshold)
    /\ \A p \in Procs :
          PushReturned(p) =>
             LET l == proc[p]
                 given == {i \in 1..Len(l.entries) : l.entries[i].content # <<>>}
             IN  /\ l.accepted = Len(l.inserted)
                 /\ l.accepted + l.deduplicated = Cardinality(given)

\* C7 witness: a Push returned having accepted an entry with an embedding and
\* skipped a later entry of the same batch as its duplicate.
C7_Witness ==
    \E p \in Procs :
       /\ PushReturned(p)
       /\ Len(proc[p].entries) = 2
       /\ Len(proc[p].entries[1].embedding) > 0
       /\ proc[p].before = <<>>
       /\ proc[p].accepted = 1
       /\ proc[p].deduplicated = 1

\* C9: in every step every entry that stays stored keeps its
\* compression_level or moves it up by exactly one, and it moves only in the
\* step of budget enforcement that rewrites a candidate.
C9_LevelMonotone ==
    [][\A i \in 1..Len(session_entries) : \A j \in 1..Len(session_entries') :
          session_entries[i].id = session_entries'[j].id =>
             LET old == session_entries[i].compression_level
                 new == session_entries'[j].compression_level
             IN  \/ new = old
                 \/ /\ new = old + 1
                    /\ new <= LevelKeywords
                    /\ \E p \in Procs : proc[p].pc = "enf_apply" /\ proc'[p] # proc[p]]_vars

\* C9 witness: an entry has been taken through every level up to keywords.
C9_Witness ==
    \E i \in 1..Len(session_entries) :
       session_entries[i].compression_level = LevelKeywords

\* C10: every stored entry keeps the content it was pushed with as
\* original_content, its content is compressToLevel of that original at its
\* compression_level, and its tokens are the estimate of its content.
C10_ContentFromOriginal ==
    \A i \in 1..Len(session_entries) :
       LET r == session_entries[i]
       IN  /\ r.id \in DOMAIN pushed
           /\ r.original_content = pushed[r.id]
           /\ r.content = compressToLevel(r.original_content, r.compression_level)
           /\ r.tokens = estimateTokens(r.content)

\* C10 witness: an entry stored at keywords whose content differs from what
\* compressing its sentence form would have given.
C10_Witness ==
    \E i \in 1..Len(session_entries) :
       LET r == session_entries[i]
       IN  /\ r.compression_level = LevelKeywords
           /\ r.content # r.original_content
           /\ r.content # compressToLevel(compressToLevel(r.original_content, LevelSentence),
                                          LevelKeywords)

(***************************************************************************)
(* Properties of Store under MemSpec (calls one after another).            *)
(***************************************************************************)
\* Process p has returned from the second of two Store calls of the same one
\* entry, the first of them made on an empty store.
StoredTwice(p) ==
    /\ proc[p].pc = "done"
    /\ proc[p].op = "Store"
    /\ proc[p].err = ""
    /\ Len(proc[p].entries) = 1
    /\ Len(proc[p].entries[1].embedding) > 0
    /\ proc[p].prevEntries = proc[p].entries
    /\ proc[p].prevBefore = <<>>

\* What C8 says of the second call: nothing stored, one duplicate, one memory,
\* and the surviving row touched once.
TouchedOnce(p) ==
    /\ proc[p].stored = 0
    /\ proc[p].deduplicated = 1
    /\ proc[p].total_memories = 1
    /\ Len(memories) = 1
    /\ Len(proc[p].before) = 1
    /\ memories[1].id = proc[p].before[1].id
    /\ memories[1].last_referenced > proc[p].before[1].last_referenced
    /\ memories[1].access_count = proc[p].before[1].access_count + 1

C4_SeqLinearizes ==
    \A sid \in DOMAIN sessions :
       LET own == SessionRows(session_entries, sid)
       IN  \A i, j \in 1..Len(own) : i < j => own[i].seq < own[j].seq

\* C5: with two Store calls interleaved statement by statement, no two
\* memories with embeddings within DedupThreshold of each other coexist.
C5_NoDuplicateMemories ==
    \A i, j \in 1..Len(memories) :
       (i # j /\ memories[i].embedding # NULL /\ memories[j].embedding # NULL) =>
          ~CosineDistanceBelow(decodeEmbedding(memories[i].embedding),
                               decodeEmbedding(memories[j].embedding), MemDedupThreshold)

\* C6: a Context or Get that runs while a Push on the same session is in
\* flight never reads the session between two statements of that Push.
C6_AtomicView ==
    \A p \in Procs :
       (proc[p].op \in {"Context", "Get"} /\ proc[p].pc = "done") => ~proc[p].midPush

(***************************************************************************)
(* More properties of the session store under Spec.                        *)
(***************************************************************************)
\* Every seq given so far: within one session (one row of sessions, told
\* apart by its created_at) the entries inserted later were given larger seq,
\* evicted entries included, and stored rows still carry the seq given.
SeqsIncrease ==
    /\ \A a, b \in DOMAIN assigned :
          (/\ a < b
           /\ assigned[a].sid = assigned[b].sid
           /\ assigned[a].created_at = assigned[b].created_at)
             => assigned[a].seq < assigned[b].seq
    /\ \A i \in 1..Len(session_entries) :
          assigned[session_entries[i].id].seq = session_entries[i].seq

PassReturned(p) == proc[p].op = "RunOnce" /\ proc[p].pc = "done"

\* The rows of id in the table (none when the memory is gone).
RowsOf(rows, id) == SelectSeq(rows, LAMBDA r : r.id = id)

\* No memory the pass of p began with is more than one decay level further.
OneLevelAtMost(p) ==
    \A i \in 1..Len(proc[p].before) :
       \A j \in 1..Len(memories) :
          memories[j].id = proc[p].before[i].id
             => memories[j].decay_level <= proc[p].before[i].decay_level + 1

\* C12: when a decay pass has returned, no memory is more than one decay
\* level further than when the pass began, and every memory that was Full
\* with last_referenced older than both SummaryAge and KeywordsAge is Summary.
C12_OneLevelPerPass ==
    \A p \in Procs :
       PassReturned(p) =>
          /\ OneLevelAtMost(p)
          /\ \A i \in 1..Len(proc[p].before) :
                LET b == proc[p].before[i]
                    cfg == proc[p].cfg
                IN  (/\ b.decay_level = DecayFull
                     /\ cfg.SummaryAge > 0
                     /\ cfg.KeywordsAge > 0
                     /\ b.last_referenced < proc[p].now - cfg.SummaryAge
                     /\ b.last_referenced < proc[p].now - cfg.KeywordsAge)
                       => /\ RowsOf(memories, b.id) # <<>>
                          /\ RowsOf(memories, b.id)[1].decay_level = DecaySummary

\* C14: when a decay pass has returned, a memory that had been accessed (a
\* duplicate Store merged into it) less than SummaryAge before the pass began
\* is not promoted from Full, one accessed less than KeywordsAge before is
\* not promoted from Summary, and one accessed less than EvictAge before is
\* still stored.
C14_AccessResetsDecay ==
    \A p \in Procs :
       PassReturned(p) =>
          \A i \in 1..Len(proc[p].before) :
             LET b == proc[p].before[i]
                 cfg == proc[p].cfg
                 since == proc[p].now - b.last_referenced
                 after == RowsOf(memories, b.id)
             IN  b.access_count > 0 =>
                    /\ (since < cfg.SummaryAge /\ b.decay_level = DecayFull)
                          => (after # <<>> /\ after[1].decay_level = DecayFull)
                    /\ (since < cfg.KeywordsAge /\ b.decay_level = DecaySummary)
                          => (after # <<>> /\ after[1].decay_level = DecaySummary)
                    /\ since < cfg.EvictAge => after # <<>>

(***************************************************************************)
(* Properties of the decay passes when they overlap (DecaySpecConc).       *)
(***************************************************************************)
\* C13: no step lowers the decay_level of a memory: a memory that is in the
\* table before and after a step has a decay_level at least as high after it.
C13_LevelNeverDecreases ==
    [][\A i \in 1..Len(memories) : \A j \in 1..Len(memories') :
          memories'[j].id = memories[i].id
             => memories'[j].decay_level >= memories[i].decay_level]_vars

(***************************************************************************)
(* Properties of the background worker (WorkerSpec).                       *)
(***************************************************************************)
\* C15: once Stop has closed stopCh the worker takes no tick from the ticker
\* (no new pass starts), a pass in flight comes to its end, and run returns.
C15_StopEndsWorker ==
    /\ [][worker.stopCh = "closed" => ~(worker.tick /\ ~worker'.tick)]_vars
    /\ (worker.stopCh = "closed" /\ proc[Worker].pc # "idle") ~> (proc[Worker].pc = "returned")

\* C16: a memory is deleted only at Keywords and a step moves it one decay
\* level further at most; and once the worker is started, and for as long as
\* it is not stopped, a memory that is not accessed again is eventually gone.
C16_EventuallyEvicted ==
    /\ [][\A i \in 1..Len(memories) :
             LET after == RowsOf(memories', memories[i].id)
             IN  IF after = <<>> THEN memories[i].decay_level = DecayKeywords
                 ELSE after[1].decay_level \in {memories[i].decay_level, memories[i].decay_level + 1}]_vars
    /\ \A id \in 1..MaxCalls :
          (/\ RowsOf(memories, id) # <<>>
           /\ RowsOf(memories, id)[1].last_referenced <= MaxClockConc
           /\ proc[Worker].pc # "idle")
             ~> \/ RowsOf(memories, id) = <<>>
                \/ RowsOf(memories, id)[1].access_count > 0
                \/ worker.stopCh = "closed"

\* C16 witness: a Store that merged nothing has returned, the worker was
\* never stopped, and the memory stored is gone.
C16_Witness ==
    /\ proc[1].op = "Store"
    /\ proc[1].pc = "done"
    /\ proc[1].stored = 1
    /\ proc[1].deduplicated = 0
    /\ memories = <<>>
    /\ worker.stopCh = "open"

(***************************************************************************)
(* Properties of Recall under RecallSpec (calls one after another).        *)
(***************************************************************************)
\* Recall has returned a result on process p.
RecallReturned(p) == proc[p].op = "Recall" /\ proc[p].pc = "done" /\ proc[p].err = ""

\* C17: the memories Recall returns are in non-increasing relevance; of two
\* with equal relevance the one read first from the table comes first; and
\* with recency_weight 1.0 they are in descending last_referenced.
C17_RecallOrder ==
    \A p \in Procs :
       RecallReturned(p) =>
          LET l == proc[p]
              rowIndex(c) == CHOOSE k \in 1..Len(l.rawRows) : l.rawRows[k].id = c.id
          IN  \A i, j \in 1..Len(l.results) :
                 i < j =>
                    /\ ~RelevanceLess(l.results[i], l.results[j], l.recencyWeight)
                    /\ ~RelevanceLess(l.results[j], l.results[i], l.recencyWeight)
                          => rowIndex(l.results[i]) < rowIndex(l.results[j])
                    /\ l.req.recency_weight >= 10
                          => l.results[i].last_referenced >= l.results[j].last_referenced

\* C17 witness: a Recall with recency_weight above 1.0 returned a memory of
\* similarity 0 before one of positive similarity, and a third behind them.
C17_Witness ==
    \E p \in Procs :
       /\ RecallReturned(p)
       /\ Len(proc[p].results) = 3
       /\ proc[p].req.recency_weight > 10
       /\ proc[p].results[1].sim = <<0, 1>>
       /\ proc[p].results[2].sim[1] > 0

\* C18: a Recall with tags returns only memories that carry at least one of
\* the tags, and its candidate count is the number of memories that do.
C18_TagFilter ==
    \A p \in Procs :
       (RecallReturned(p) /\ Len(proc[p].req.tags) > 0) =>
          LET l == proc[p]
              wanted == {l.req.tags[i] : i \in 1..Len(l.req.tags)}
              tagsOf(id) == {t[2] : t \in {x \in l.beforeTags : x[1] = id}}
          IN  /\ \A i \in 1..Len(l.results) : tagsOf(l.results[i].id) \cap wanted # {}
              /\ l.stats.candidates =
                    Cardinality({i \in 1..Len(l.before) : tagsOf(l.before[i].id) \cap wanted # {}})

\* C18 witness: a Recall with two tags returned a memory that carries one of
\* them only, while a memory without tags was stored.
C18_Witness ==
    \E p \in Procs :
       /\ RecallReturned(p)
       /\ Len(proc[p].req.tags) > 1
       /\ Len(proc[p].results) > 0
       /\ Len(proc[p].before) > Len(proc[p].results)
       /\ proc[p].stats.candidates = 1

\* C19: what Recall returns is a prefix of the ranked candidates of at most
\* max_results memories (10 when max_results <= 0); with max_tokens > 0 the
\* prefix ends before the first candidate that would take the token estimate
\* over max_tokens, token_count is the estimate of what is returned and is at
\* most max_tokens; deduplicated = candidates - returned.
C19_RecallPrefix ==
    \A p \in Procs :
       RecallReturned(p) =>
          LET l == proc[p]
              n == Len(l.results)
              limit == IF l.req.max_results <= 0 THEN 10 ELSE l.req.max_results
              tokens == SumSeq([i \in 1..n |-> estimateTokens(l.results[i].text)])
          IN  /\ n <= Len(l.candidates)
              /\ l.results = SubSeq(l.candidates, 1, n)
              /\ n <= limit
              /\ l.stats.token_count = tokens
              /\ l.req.max_tokens > 0 => tokens <= l.req.max_tokens
              /\ (n < limit /\ n < Len(l.candidates))
                    => /\ l.req.max_tokens > 0
                       /\ tokens + estimateTokens(l.candidates[n + 1].text) > l.req.max_tokens
              /\ l.stats.candidates = Len(l.candidates)
              /\ l.stats.returned = n
              /\ l.stats.deduplicated = l.stats.candidates - n

\* C19 witness: a Recall stopped at the token budget before a candidate that
\* is followed by one that would have fitted.
C19_Witness ==
    \E p \in Procs :
       /\ RecallReturned(p)
       /\ proc[p].req.max_tokens > 0
       /\ Len(proc[p].results) = 1
       /\ Len(proc[p].candidates) = 3
       /\ proc[p].maxResults > 1
       /\ proc[p].stats.token_count + estimateTokens(proc[p].candidates[3].text)
             <= proc[p].req.max_tokens

C21_InvalidQuery ==
    \A p \in Procs :
       (/\ proc[p].op = "Recall"
        /\ proc[p].pc = "done"
        /\ proc[p].req.query = <<>>
        /\ proc[p].req.query_embedding = <<>>)
       => /\ proc[p].err = "InvalidQuery"
          /\ memories = proc[p].before
          /\ memory_tags = proc[p].beforeTags

\* C21 witness: such a Recall has failed on a store that holds two memories.
C21_Witness ==
    \E p \in Procs :
       /\ proc[p].op = "Recall"
       /\ proc[p].pc = "done"
       /\ proc[p].err = "InvalidQuery"
       /\ proc[p].req.query = <<>>
       /\ proc[p].req.query_embedding = <<>>
       /\ Len(memories) >= 2

(***************************************************************************)
(* Properties of Forget under ForgetSpec (calls one after another).        *)
(***************************************************************************)
\* Forget has returned on process p.
ForgetReturned(p) == proc[p].op = "Forget" /\ proc[p].pc = "done" /\ proc[p].err = ""

\* The row satisfies every filter the request supplies, judged on the rows
\* and tags as they were when Forget was called and on the instants.
SatisfiesFilters(req, tags, row) ==
    /\ Len(req.ids) > 0 \/ Len(req.tags) > 0 \/ req.older_than # ZeroTime
    /\ Len(req.ids) > 0 => \E i \in 1..Len(req.ids) : req.ids[i] = row.id
    /\ Len(req.tags) > 0 => \E i \in 1..Len(req.tags) : <<row.id, req.tags[i]>> \in tags
    /\ req.older_than # ZeroTime => row.created_at < req.older_than

\* C22: when Forget has returned, the memories are those it was called on
\* that do not satisfy every supplied filter, unchanged and in their order;
\* removed is the number of the others; the tag rows are those of the
\* memories left; and with no filter nothing is deleted and removed is 0.
C22_ForgetExact ==
    \A p \in Procs :
       ForgetReturned(p) =>
          LET l == proc[p]
              kept == SelectSeq(l.before,
                                LAMBDA r : ~SatisfiesFilters(l.req, l.beforeTags, r))
          IN  /\ memories = kept
              /\ l.removed = Len(l.before) - Len(kept)
              /\ memory_tags = TagsOf(kept, l.beforeTags)

(***************************************************************************)
(* Properties of Create, Delete, Context and of calls on sessions that do  *)
(* not exist, under Spec (calls one after another).                        *)
(***************************************************************************)
\* C26: a Create whose session id exists returns SessionExists and leaves the
\* sessions (max_tokens, dedup_threshold, preserve_recent, created_at,
\* updated_at) and all entries as they were.
C26_CreateExisting ==
    [][\A p \in Procs :
          (/\ calls' = calls + 1
           /\ proc'[p].op = "Create"
           /\ proc'[p].pc = "done"
           /\ proc'[p].sid \in DOMAIN sessions)
          => /\ proc'[p].err = "SessionExists"
             /\ sessions' = sessions
             /\ session_entries' = session_entries]_vars

\* C26 witness: Create has returned SessionExists for a session that holds entries.
C26_Witness ==
    \E p \in Procs :
       /\ proc[p].op = "Create"
       /\ proc[p].err = "SessionExists"
       /\ CountEntries(session_entries, proc[p].sid) > 0

C28_SessionNotFound ==
    /\ [](\A i \in 1..Len(session_entries) :
             session_entries[i].session_id \in DOMAIN sessions)
    /\ [][\A p \in Procs :
             (/\ proc[p].op \in {"Push", "Context", "Get", "Delete"}
              /\ proc[p].pc # "done"
              /\ proc[p].sid \notin DOMAIN sessions)
             => /\ sessions' = sessions
                /\ session_entries' = session_entries
                /\ proc'[p].op = proc[p].op
                /\ \/ proc'[p].pc = "done" /\ proc'[p].err = "SessionNotFound"
                   \/ proc[p].pc = "del_count" /\ proc'[p].pc = "del_exec"]_vars

\* C28 witness: Push has returned SessionNotFound for a session that was
\* deleted after entries had been pushed to it.
C28_Witness ==
    \E p \in Procs :
       /\ proc[p].op = "Push"
       /\ proc[p].pc = "done"
       /\ proc[p].err = "SessionNotFound"
       /\ \E id \in DOMAIN assigned : assigned[id].sid = proc[p].sid
       /\ Len(proc[p].entries) > 0

\* Context has returned a result on process p.
ContextReturned(p) == proc[p].op = "Context" /\ proc[p].pc = "done" /\ proc[p].err = ""

\* The entries of session sid in ascending seq, those of the role when one is given.
EntriesInOrder(sid, role) ==
    SelectSeq(OrderBySeq(SessionRows(session_entries, sid)),
              LAMBDA r : role = "" \/ r.role = role)

\* C29: the entries Context returns are the first n of the session's entries
\* in ascending seq (of the requested role, when one is given); their tokens
\* sum to at most max_tokens when that is positive; the entry after them, if
\* there is one, would exceed max_tokens; with max_tokens = 0 all are
\* returned; and no step of Context changes a session or an entry.
C29_ContextPrefix ==
    /\ [](\A p \in Procs :
             ContextReturned(p) =>
                LET l == proc[p]
                    all == EntriesInOrder(l.sid, l.role)
                    n == Len(l.entries)
                    sum == SumSeq([i \in 1..n |-> all[i].tokens])
                IN  /\ n <= Len(all)
                    /\ \A i \in 1..n : /\ l.entries[i].id = all[i].id
                                        /\ l.entries[i].tokens = all[i].tokens
                    /\ l.total_tokens = sum
                    /\ l.max_tokens > 0 => sum <= l.max_tokens
                    /\ n < Len(all) => /\ l.max_tokens > 0
                                       /\ sum + all[n + 1].tokens > l.max_tokens)
    /\ [][\A p \in Procs :
             (proc[p].op = "Context" /\ proc[p].pc # "done")
             => /\ sessions' = sessions
                /\ session_entries' = session_entries]_vars

\* C29 witness: Context stopped at an entry that exceeds the limit although an
\* entry behind it would have fitted.
C29_Witness ==
    \E p \in Procs :
       /\ ContextReturned(p)
       /\ LET l == proc[p]
              all == EntriesInOrder(l.sid, l.role)
              n == Len(l.entries)
          IN  \E j \in (n + 2)..Len(all) :
                 l.total_tokens + all[j].tokens <= l.max_tokens

\* C30: the compression_savings Context reports is the sum of
\* estimateTokens(original_content) minus the sum of tokens, both over all
\* entries of the session; it is 0 when no entry of the session is compressed.
C30_CompressionSavings ==
    \A p \in Procs :
       ContextReturned(p) =>
          LET l == proc[p]
              own == SessionRows(session_entries, l.sid)
          IN  /\ l.compression_savings =
                    SumSeq([i \in 1..Len(own) |-> estimateTokens(own[i].original_content)])
                    - SumTokens(session_entries, l.sid)
              /\ (\A i \in 1..Len(own) : own[i].compression_level = LevelFull)
                    => l.compression_savings = 0

(***************************************************************************)
(* Properties of calls whose statements fail.                              *)
(***************************************************************************)
\* C23: the step in which a statement of Store fails ends the call with the
\* error and changes no memory and no tag; and when Store has returned an
\* error at entry i, the memories it was called on are all there, every
\* entry before i is stored or merged or was empty, and nothing but those
\* entries (and the memory of entry i, when one of its tags failed) has been
\* added.
C23_StoreFailsFast ==
    /\ [][\A p \in Procs :
             (proc[p].op = "Store" /\ proc[p].err = "" /\ proc'[p].op = "Store"
              /\ proc'[p].err # "")
             => /\ proc'[p].pc = "done"
                /\ memories' = memories
                /\ memory_tags' = memory_tags]_vars
    /\ [](\A p \in Procs :
             (proc[p].op = "Store" /\ proc[p].pc = "done" /\ proc[p].err # "")
             => LET l == proc[p]
                    n == Len(l.before)
                    earlier == 1..(l.i - 1)
                IN  /\ l.i \in 1..(Len(l.entries) + 1)
                    /\ Len(memories) = n + l.stored + (IF l.id # NoID THEN 1 ELSE 0)
                    /\ \A k \in 1..n : memories[k].id = l.before[k].id
                    /\ l.stored + l.deduplicated
                          + Cardinality({k \in earlier : l.entries[k].text = <<>>}) = l.i - 1
                    /\ SumSeq([k \in 1..Len(memories) |-> memories[k].access_count])
                          = SumSeq([k \in 1..n |-> l.before[k].access_count]) + l.deduplicated
                    /\ \A k \in (n + 1)..Len(memories) :
                          \E j \in 1..Len(l.entries) :
                             j <= l.i /\ memories[k].text = l.entries[j].text)

\* C23 witness: Store has returned an error at the second entry of a batch
\* whose first entry it had inserted.
C23_Witness ==
    \E p \in Procs :
       /\ proc[p].op = "Store"
       /\ proc[p].pc = "done"
       /\ proc[p].err = "insert memory"
       /\ proc[p].i = 2
       /\ proc[p].stored = 1
       /\ Len(memories) = Len(proc[p].before) + 1

\* C24: a Push of which a statement has failed does not return success; and
\* a Push that returns success leaves the session within its max_tokens.
C24_ErrorsSurface ==
    \A p \in Procs :
       (proc[p].op = "Push" /\ proc[p].pc = "done" /\ proc[p].err = "")
       => /\ ~proc[p].failed
          /\ SumTokens(session_entries, proc[p].sid) <= proc[p].sess.max_tokens

\* C25: a call on a store whose Close has returned ends with the StoreClosed
\* error, whatever its arguments.
C25_ClosedStoreFails ==
    \A p \in Procs :
       /\ ("session" \in closed /\ proc[p].pc = "done"
             /\ proc[p].op \in {"Create", "Push", "Context", "Get", "Delete"})
            => proc[p].err = "StoreClosed"
       /\ ("memory" \in closed /\ proc[p].pc = "done"
             /\ proc[p].op \in {"Store", "Forget"})
            => proc[p].err = "StoreClosed"

(***************************************************************************)
(* Scenario S2 under S2Spec.                                               *)
(***************************************************************************)
\* The Push of scenario S2 has returned on process p: max_tokens 50,
\* preserve_recent 1, the session empty when the call began.
S2Returned(p) ==
    /\ PushReturned(p)
    /\ proc[p].sess.max_tokens = 50
    /\ proc[p].sess.preserve_recent = 1
    /\ proc[p].before = <<>>
    /\ proc[p].entries \in S2Batches

\* The entry the Push on process p inserted last is stored at compression_level 0.
LastPushedAtFull(p) ==
    \E i \in 1..Len(session_entries) :
       /\ session_entries[i].id = Last(proc[p].inserted)
       /\ session_entries[i].compression_level = LevelFull

EnforceBefore(d, c) ==
    \/ d.importance < c.importance
    \/ d.importance = c.importance /\ assigned[d.id].seq < assigned[c.id].seq

\* C32: whenever a pass of enforceBudget is about to compress or evict a
\* candidate, the running token sum is over max_tokens and every candidate of
\* the pass that is of lower importance, or of equal importance and lower
\* seq, has been compressed or evicted earlier in the same pass.
C32_EnforceOrder ==
    \A p \in Procs :
       (proc[p].op = "Push" /\ proc[p].pc = "enf_apply") =>
          LET l == proc[p]
              c == l.candidates[l.ci]
          IN  /\ l.currentTokens > l.sess.max_tokens
              /\ \A k \in 1..Len(l.candidates) :
                    EnforceBefore(l.candidates[k], c) => k < l.ci

(***************************************************************************)
(* Compression before eviction, under Spec.                                *)
(***************************************************************************)
\* The ids of the stored entries.
EntryIds(rows) == {rows[i].id : i \in 1..Len(rows)}

\* The compressions and evictions a Push has counted so far: those of the
\* passes that have returned and those of the pass that is running.
Compressions(l) == l.compressed + l.c
Evictions(l) == l.evicted + l.e

\* C33: a step of enforceBudget's loop over the candidates acts on one entry,
\* which it has not acted on before in the same pass: it deletes it only when
\* the entry is stored at Keywords, holding the keywords of its original
\* content, and raises it by exactly one level otherwise; every other entry
\* stays as it is, and the
\* step is counted as one eviction or as one compression.
C33_CompressThenEvict ==
    [][\A p \in Procs :
          (proc[p].op = "Push" /\ proc[p].pc = "enf_apply" /\ proc'[p] # proc[p]) =>
             LET l == proc[p]
                 c == l.candidates[l.ci]
                 row == RowsOf(session_entries, c.id)
                 gone == EntryIds(session_entries) \ EntryIds(session_entries')
             IN  /\ \A k \in 1..Len(l.candidates) : k # l.ci => l.candidates[k].id # c.id
                 /\ Len(row) = 1
                 /\ gone \subseteq {c.id}
                 /\ \A i \in 1..Len(session_entries) :
                       session_entries[i].id # c.id =>
                          RowsOf(session_entries', session_entries[i].id) = <<session_entries[i]>>
                 /\ IF c.id \in gone
                    THEN /\ row[1].compression_level = LevelKeywords
                         /\ row[1].content = extractKeywords(row[1].original_content)
                         /\ Evictions(proc'[p]) = Evictions(l) + 1
                         /\ Compressions(proc'[p]) = Compressions(l)
                    ELSE /\ row[1].compression_level < LevelKeywords
                         /\ RowsOf(session_entries', c.id)[1].compression_level
                               = row[1].compression_level + 1
                         /\ Compressions(proc'[p]) = Compressions(l) + 1
                         /\ Evictions(proc'[p]) = Evictions(l)]_vars

\* C33 witness: a Push has returned after enforcement evicted an entry it
\* found at Keywords, without fallback eviction.
C33_Witness ==
    \E p \in Procs :
       /\ PushReturned(p)
       /\ ~proc[p].fallback
       /\ proc[p].evicted > 0
       /\ proc[p].compressed > 0

(***************************************************************************)
(* Fallback eviction (evictOldest), under Spec.                            *)
(***************************************************************************)
\* Process p is in evictOldest.
InFallback(l) == l.op = "Push" /\ l.pc \in {"fb_select", "fb_delete"}

InEnforce(l) ==
    l.op = "Push" /\ l.pc \in {"enf_sum", "enf_count", "enf_select", "enf_apply",
                               "fb_select", "fb_delete"}

\* The sum over the stored entries of the levels each has left before it is
\* evicted: what every compression and every eviction lowers.
Remaining(rows) == SumSeq([i \in 1..Len(rows) |-> LevelKeywords + 1 - rows[i].compression_level])

MemoryIds(rows) == {rows[i].id : i \in 1..Len(rows)}

\* C36: the DELETE of a decay pass is its first statement, is issued only
\* when EvictAge > 0, and removes exactly the memories that are at Keywords
\* or beyond with last_referenced earlier than now - EvictAge; no other
\* statement of a pass removes a memory, so a memory the pass promotes to
\* Keywords and the memories at Full and Summary stay stored.
C36_EvictPhase ==
    [][\A p \in Procs \cup {Worker} :
          (proc[p].pc \in {"dk_evict", "dk_select", "dk_update"} /\ proc'[p] # proc[p]) =>
             LET l == proc[p]
                 gone == MemoryIds(memories) \ MemoryIds(memories')
                 due == {i \in 1..Len(memories) :
                            /\ memories[i].decay_level >= DecayKeywords
                            /\ memories[i].last_referenced < l.now - l.cfg.EvictAge}
             IN  IF l.pc = "dk_evict"
                 THEN /\ l.cfg.EvictAge > 0
                      /\ l.phase = 1
                      /\ gone = {memories[i].id : i \in due}
                 ELSE gone = {}]_vars

(***************************************************************************)
(* Budget enforcement of two interleaved Pushes (SpecConc).                *)
(***************************************************************************)
\* C37: no statement of a Push lowers the compression_level of an entry: an
\* entry that is in the table before and after a step has a level at least
\* as high after it, also when the step is the UPDATE of an enforcement pass
\* whose candidates were read before another call compressed the entry.
C37_StaleUpdateKeepsLevel ==
    [][\A i \in 1..Len(session_entries) : \A j \in 1..Len(session_entries') :
          session_entries'[j].id = session_entries[i].id
             => session_entries'[j].compression_level >= session_entries[i].compression_level]_vars

(***************************************************************************)
(* A memory touched while a decay phase is between its SELECT and its      *)
(* UPDATEs (DecaySpecConc).                                                *)
(***************************************************************************)
\* C38: an UPDATE of a decay phase rewrites the text or raises the
\* decay_level of a memory only if, at the moment of the update, the
\* last_referenced of the memory is older than the cutoff of the phase (by
\* the instants, or by the comparison of the texts that the SELECT makes): a
\* memory touched since the phase selected it is left as it is.
C38_TouchedNotDecayed ==
    [][\A p \in Procs \cup {Worker} :
          (proc[p].pc = "dk_update" /\ proc'[p] # proc[p]) =>
             LET l == proc[p]
                 cutoff == l.now - PhaseAge(l.cfg, l.phase)
             IN  \A i \in 1..Len(memories) :
                    RowsOf(memories', memories[i].id) # <<memories[i]>>
                       => \/ memories[i].last_referenced < cutoff
                          \/ ReferencedBefore(memories[i], cutoff)]_vars

(***************************************************************************)
(* The newest entry of a session after a Push (Spec).                      *)
(***************************************************************************)
\* The entry the Push on process p inserted last is stored at
\* compression_level 0 with the content that was pushed.
LastPushedIntact(p) ==
    \E i \in 1..Len(session_entries) :
       /\ session_entries[i].id = Last(proc[p].inserted)
       /\ session_entries[i].session_id = proc[p].sid
       /\ session_entries[i].compression_level = LevelFull
       /\ session_entries[i].content = pushed[Last(proc[p].inserted)]

C40_CompressNeverGrows ==
    /\ \A id \in DOMAIN pushed :
          /\ estimateTokens(compressToLevel(pushed[id], LevelSentence)) <= estimateTokens(pushed[id])
          /\ estimateTokens(compressToLevel(pushed[id], LevelKeywords)) <= estimateTokens(pushed[id])
    /\ \A i \in 1..Len(session_entries) :
          session_entries[i].compression_level > LevelFull
             => session_entries[i].tokens <= estimateTokens(session_entries[i].original_content)

====
